---- MODULE Spec2Model ----
(***************************************************************************)
(* Model of the sparse-Hamiltonian / streaming-QFI / stress-energy         *)
(* pipeline of scripts/QIF/Ona (l4_exact_qfi_baseline.py,                  *)
(* qfi_streaming.py, stress_energy.py) and of the regime classifiers in    *)
(* scripts/QIF/memory.                                                     *)
(*                                                                         *)
(* Operators on the 2^N-dimensional space are sums of Kronecker products   *)
(* of one-site factors.  A Kronecker product of N factors taken from       *)
(* {identity, sigma_x, sigma_z} is written as the sequence of its factors, *)
(* leftmost factor first ("I", "X", "Z"); such products are linearly       *)
(* independent, so a sparse matrix built by the code is determined by the  *)
(* map from factor sequences to their summed coefficients.                 *)
(***************************************************************************)
EXTENDS Integers, Sequences, FiniteSets, TLC

VARIABLES
    \* ---- Hamiltonian assembler (build_sparse_tfim_hamiltonian,
    \*      build_local_hamiltonian_tfim_2d) and a caller summing local terms
    hamL,          \* L
    hamJ,          \* J
    hamH,          \* h
    hamDeltaH,     \* delta_h argument: None or an array
    hamSite,       \* site argument of the last local build: None or an int
    hamFull,       \* result of build_sparse_tfim_hamiltonian
    hamLocal,      \* result of the last build_local_hamiltonian_tfim_2d call
    hamSum,        \* running sum of local Hamiltonians over sites 0..hamNext-1
    hamNext,       \* next site whose local Hamiltonian is added to hamSum
    hamGens,       \* result of qfi_streaming.build_local_generators_tfim
    \* ---- one call of qfi_streaming.compute_qfi_matrix_streaming
    qfiPc,         \* "idle", "call", "loop", "done"
    qfiNGen,       \* len(generators)
    qfiSites,      \* the sites argument (None or a list), then the list in use
    qfiI,          \* i_idx of the outer loop
    qfiJ,          \* j_idx of the inner loop
    qfiF,          \* the matrix F
    qfiG,          \* the returned metric g (Unset until the call returns)
    qfiCalls,      \* number of compute_local_qfi_element calls made so far
    \* ---- one call of fit_einstein_relation
    fitPc,         \* "idle", "call", "done"
    fitG,          \* G
    fitT,          \* T
    fitFree,       \* free_intercept
    fitResult,     \* the returned (kappa, b, R2), or the exception raised
    \* ---- one activation value given to the three regime classifiers
    regPc,         \* "idle", "call", "done"
    regAct,        \* the activation, in hundredths
    regLabels,     \* the labels returned by the three copies of the classifier
    \* ---- the script l4_exact_qfi_baseline.py: __main__ and run_l4_validation
    runPc,         \* "Init", a stage of run_l4_validation, "write", "Reported", "Crashed"
    runArgs,       \* seed, delta_h_value, L, J, h of the current call
    runLocals,     \* the local variables of run_l4_validation assigned so far
    runTrace,      \* the stages the current run has completed, in order
    runResults,    \* the dict returned by run_l4_validation (Unset before)
    runOutput,     \* the output file (Unset while it does not exist)
    runError,      \* None, or the exception that ended the process
    runCount,      \* number of runs started
    runPrev,       \* None, or the arguments, H_0, H_1 and regime of the last run that returned
    \* ---- one call of find_ground_state_sparse
    solPc,         \* "idle", "call", "eigsh", "done", "raised"
    solH,          \* the matrix H
    solCalls,      \* number of calls of eigsh made so far
    solEig,        \* what eigsh returned (Unset before)
    solResult,      \* the returned (E0, psi0), or the exception that left the call
    \* ---- the two stress-energy routines of stress_energy.py on one state
    strPc,         \* "idle", "loop", "returned", "done", "raised"
    strArgs,       \* psi, L, J, h, sites of the call
    strIdx,        \* number of loop iterations completed
    strT,          \* the array T of compute_stress_energy_streaming
    strPar,         \* what compute_stress_energy_parallel did (Unset before)
    \* ---- the element computations of compute_qfi_matrix_streaming (default
    \*      site list) taken in any order, their two assignments interleaved
    qfoPc,         \* "idle", "run"
    qfoN,          \* n_gen = len(generators)
    qfoTasks,      \* element computation -> 0 not started, 1 element stored, 2 mirrored
    qfoF,           \* the matrix F
    \* ---- one call of compute_geometry_from_qfi
    geoPc,         \* "idle", "call", "done"
    geoG,          \* the metric g, a list of rows
    geoOut,         \* the returned (R_diag, G_diag) (Unset before)
    geoReg,        \* the regularization argument of the call
    geoG0,         \* the metric as it was when the call was made
    \* ---- the three operator builders on one dict of one-site operators
    kronPc,        \* "idle", "call", "ops", "done"
    kronL,         \* L
    kronOps,       \* the dict ops: site -> "X" or "Z"
    kronBase,      \* what build_operator of the Hamiltonian assembler returned
    kronStress,    \* what build_operator of the stress-energy module returned
    kronGens,       \* what build_local_generators_tfim(L) returned
    \* ---- compute_qfi_matrix_streaming on numeric states: F and g as numbers
    metPc,         \* "idle", "call", "done"
    metL,          \* L: the generators are build_local_generators_tfim(L)
    metPsi,        \* the state: integer amplitudes v and s = v.v, psi = v / sqrt(s)
    metSites,      \* the sites argument
    metEps,        \* the regularization argument
    metF,          \* the returned F (Unset before)
    metG,           \* the returned g (Unset before)
    \* ---- one POST /run/ingest request to the ML worker
    ingPc,         \* "idle", "request", "run", "replied"
    ingModule,     \* "kernels" (kernels/core/health.py) or "poloniex" (python-services)
    ingEnv,        \* script present, POLONIEX_API_KEY set, POLONIEX_API_SECRET set
    ingProc,       \* how subprocess.run ended (Unset before)
    ingReply,       \* the HTTP status and body of the response (Unset before)
    \* ---- the single-run script test_single_run.py: H and the local densities
    sglPc,         \* "idle", "bonds", "fields", "density", "done"
    sglL,          \* L of the configuration
    sglDeltaH,     \* delta_h of the configuration, in hundredths
    sglI,          \* the index of the loop in progress
    sglH,          \* the matrix H built so far
    sglT,           \* the observables of local_energy_density(psi, i), site by site
    \* ---- the backend test runners: tests/backend_test.py and backend_test.py
    btPc,          \* "idle", "tests", "report", "main", "exited"
    btFile,        \* "tests/backend_test.py" or "backend_test.py"
    btRun,         \* tests_run
    btPassed,      \* tests_passed
    btFailed,      \* failed_tests
    btReturned,    \* what generate_report and run_all_tests returned (Unset before)
    btExit,         \* the exit code of the process (-1 before)
    \* ---- runs of ingest_markets.main on one catalog file
    catPc,         \* "idle", "ready"
    catFile,       \* the catalog on disk: version, lastSynced, markets
    catClock,      \* the time, in seconds
    catRuns,       \* number of runs completed
    catPrev,       \* the catalog on disk before the last run (Unset before the first)
    catLast        \* the last run: its time and the number of products it extracted

hamVars == <<hamL, hamJ, hamH, hamDeltaH, hamSite, hamFull, hamLocal, hamSum, hamNext,
             hamGens>>
qfiVars == <<qfiPc, qfiNGen, qfiSites, qfiI, qfiJ, qfiF, qfiG, qfiCalls>>

fitVars == <<fitPc, fitG, fitT, fitFree, fitResult>>
regVars == <<regPc, regAct, regLabels>>
runVars == <<runPc, runArgs, runLocals, runTrace, runResults, runOutput, runError,
             runCount, runPrev>>
solVars == <<solPc, solH, solCalls, solEig, solResult>>
strVars == <<strPc, strArgs, strIdx, strT, strPar>>
qfoVars == <<qfoPc, qfoN, qfoTasks, qfoF>>
geoVars == <<geoPc, geoG, geoOut, geoReg, geoG0>>
kronVars == <<kronPc, kronL, kronOps, kronBase, kronStress, kronGens>>
metVars == <<metPc, metL, metPsi, metSites, metEps, metF, metG>>
ingVars == <<ingPc, ingModule, ingEnv, ingProc, ingReply>>
sglVars == <<sglPc, sglL, sglDeltaH, sglI, sglH, sglT>>
btVars == <<btPc, btFile, btRun, btPassed, btFailed, btReturned, btExit>>
catVars == <<catPc, catFile, catClock, catRuns, catPrev, catLast>>

vars == <<hamVars, qfiVars, fitVars, regVars, runVars, solVars, strVars, qfoVars, geoVars, kronVars, metVars, ingVars, sglVars, btVars, catVars>>

\* what the actions of one component leave alone
HamFrame == <<qfiVars, fitVars, regVars, runVars, solVars, strVars, qfoVars, geoVars, kronVars, metVars, ingVars, sglVars, btVars, catVars>>
QfiFrame == <<hamVars, fitVars, regVars, runVars, solVars, strVars, qfoVars, geoVars, kronVars, metVars, ingVars, sglVars, btVars, catVars>>
FitFrame == <<hamVars, qfiVars, regVars, runVars, solVars, strVars, qfoVars, geoVars, kronVars, metVars, ingVars, sglVars, btVars, catVars>>
RegFrame == <<hamVars, qfiVars, fitVars, runVars, solVars, strVars, qfoVars, geoVars, kronVars, metVars, ingVars, sglVars, btVars, catVars>>
RunFrame == <<hamVars, qfiVars, fitVars, regVars, solVars, strVars, qfoVars, geoVars, kronVars, metVars, ingVars, sglVars, btVars, catVars>>
SolFrame == <<hamVars, qfiVars, fitVars, regVars, runVars, strVars, qfoVars, geoVars, kronVars, metVars, ingVars, sglVars, btVars, catVars>>
StrFrame == <<hamVars, qfiVars, fitVars, regVars, runVars, solVars, qfoVars, geoVars, kronVars, metVars, ingVars, sglVars, btVars, catVars>>
QfoFrame == <<hamVars, qfiVars, fitVars, regVars, runVars, solVars, strVars, geoVars, kronVars, metVars, ingVars, sglVars, btVars, catVars>>
GeoFrame == <<hamVars, qfiVars, fitVars, regVars, runVars, solVars, strVars, qfoVars, kronVars, metVars, ingVars, sglVars, btVars, catVars>>
KronFrame == <<hamVars, qfiVars, fitVars, regVars, runVars, solVars, strVars, qfoVars, geoVars, metVars, ingVars, sglVars, btVars, catVars>>
MetFrame == <<hamVars, qfiVars, fitVars, regVars, runVars, solVars, strVars, qfoVars, geoVars, kronVars, ingVars, sglVars, btVars, catVars>>
IngFrame == <<hamVars, qfiVars, fitVars, regVars, runVars, solVars, strVars, qfoVars, geoVars, kronVars, metVars, sglVars, btVars, catVars>>
SglFrame == <<hamVars, qfiVars, fitVars, regVars, runVars, solVars, strVars, qfoVars, geoVars, kronVars, metVars, ingVars, btVars, catVars>>
BtFrame == <<hamVars, qfiVars, fitVars, regVars, runVars, solVars, strVars, qfoVars, geoVars, kronVars, metVars, ingVars, sglVars, catVars>>
CatFrame == <<hamVars, qfiVars, fitVars, regVars, runVars, solVars, strVars, qfoVars, geoVars, kronVars, metVars, ingVars, sglVars, btVars>>

-----------------------------------------------------------------------------
(* Bounds of the model *)

MaxL == 3           \* largest lattice side explored by the assembler
MaxCoupling == 2    \* J and h range over -1..MaxCoupling
MaxGen == 3         \* largest generator list passed to the QFI engine
MaxSitesLen == 3    \* longest explicit sites list passed to the QFI engine
MaxFitLen == 4      \* longest G, T arrays given to the fitter
MaxFitVal == 4      \* entries of T range over 0..MaxFitVal
MaxActivation == 100 \* activations range over -10..MaxActivation hundredths
MaxSeed == 1
MaxRuns == 2
MaxGeoN == 3           \* largest metric given to compute_geometry_from_qfi
MaxGeoVal == 2         \* largest diagonal entry of such a metric
MaxKronL == 2          \* largest lattice side whose operators are built as matrices
MaxReturnCode == 3     \* largest exit code of a failed ingestion process
MaxSingleL == 4        \* largest lattice side of the single-run script
MaxMarkets == 3        \* largest number of markets in a catalog or a run
MaxCatRuns == 3        \* number of ingestion runs on one catalog

-----------------------------------------------------------------------------
(* Python values *)

None == <<>>                 \* an absent optional argument
Some(x) == <<x>>             \* a present optional argument
IsNone(o) == Len(o) = 0
Val(o) == o[1]

\* Python's floor division and modulo (the result of % has the divisor's sign)
PyFloorDiv(a, b) == IF b > 0 THEN a \div b ELSE (0 - a) \div (0 - b)
PyMod(a, b) == a - b * PyFloorDiv(a, b)

Raise(e) == [status |-> "raise", error |-> e]
Unset == [status |-> "unset"]

-----------------------------------------------------------------------------
(* Sparse operators *)

OpZero == [s \in {} |-> 0]

\* c * (Kronecker product with factor sequence s)
OpTerm(c, s) == IF c = 0 THEN OpZero ELSE [t \in {s} |-> c]

\* A + B for sparse matrices: coefficients add, cancelled entries vanish
OpAdd(A, B) ==
    LET D == DOMAIN A \cup DOMAIN B
        raw == [s \in D |-> (IF s \in DOMAIN A THEN A[s] ELSE 0)
                          + (IF s \in DOMAIN B THEN B[s] ELSE 0)]
        nz == {s \in D : raw[s] # 0}
    IN  [s \in nz |-> raw[s]]

\* build_operator(ops): ops[k] at site k, identity elsewhere, site 0 leftmost.
\* Keys of ops outside 0..N_sites-1 are never looked up.
build_operator(ops, N_sites) ==
    [k \in 1..N_sites |-> IF (k - 1) \in DOMAIN ops THEN ops[k - 1] ELSE "I"]

\* the dict {i: sigma_z, j: sigma_z}
ZZops(i, j) == [k \in {i, j} |-> "Z"]
\* the dict {i: sigma_x}
Xops(i) == [k \in {i} |-> "X"]

-----------------------------------------------------------------------------
(* stress_energy.build_local_hamiltonian_tfim_2d *)

\* the neighbors list, in the order the code appends to it
LocalNeighbors(L, site) ==
    LET ix == PyMod(site, L)
        iy == PyFloorDiv(site, L)
    IN  (IF ix > 0 THEN <<site - 1>> ELSE <<>>)
        \o (IF ix < L - 1 THEN <<site + 1>> ELSE <<>>)
        \o (IF iy > 0 THEN <<site - L>> ELSE <<>>)
        \o (IF iy < L - 1 THEN <<site + L>> ELSE <<>>)

\* the coupling each bond term of the local Hamiltonian is multiplied by
LocalBondCoefficient(J) == 0 - J

RECURSIVE LocalIsingSum(_, _, _, _, _)
LocalIsingSum(nbrs, k, site, J, N_sites) ==
    IF k > Len(nbrs) THEN OpZero
    ELSE OpAdd(OpTerm(LocalBondCoefficient(J),
                      build_operator(ZZops(site, nbrs[k]), N_sites)),
               LocalIsingSum(nbrs, k + 1, site, J, N_sites))

build_local_hamiltonian_tfim_2d(L, J, h, site) ==
    LET N_sites == L * L
    IN  IF IsNone(site) THEN Raise("ValueError")
        ELSE IF L = 0 THEN Raise("ZeroDivisionError")
        ELSE LET s == Val(site)
                 ising == LocalIsingSum(LocalNeighbors(L, s), 1, s, J, N_sites)
                 field == OpTerm(0 - h, build_operator(Xops(s), N_sites))
             IN  [status |-> "ok", N |-> N_sites, terms |-> OpAdd(ising, field)]

-----------------------------------------------------------------------------
(* l4_exact_qfi_baseline.build_sparse_tfim_hamiltonian *)

\* the bond terms of iteration i on a lattice closed into a torus
FullBondsAtPeriodic(L, J, i, N_sites) ==
    LET ix == PyMod(i, L)
        iy == PyFloorDiv(i, L)
        right == IF ix < L - 1 THEN i + 1 ELSE i + 1 - L
        up == IF iy < L - 1 THEN i + L ELSE i + L - N_sites
    IN  OpAdd(OpTerm(0 - J, build_operator(ZZops(i, right), N_sites)),
              OpTerm(0 - J, build_operator(ZZops(i, up), N_sites)))

\* the bond terms added in iteration i of the Ising loop
FullBondsAt(L, J, i, N_sites) ==
    LET ix == PyMod(i, L)
        iy == PyFloorDiv(i, L)
        right == IF ix < L - 1
                 THEN OpTerm(0 - J, build_operator(ZZops(i, i + 1), N_sites))
                 ELSE OpZero
        up == IF iy < L - 1
              THEN OpTerm(0 - J, build_operator(ZZops(i, i + L), N_sites))
              ELSE OpZero
    IN  OpAdd(right, up)

RECURSIVE FullIsingSum(_, _, _, _)
FullIsingSum(L, J, i, N_sites) ==
    IF i >= N_sites THEN OpZero
    ELSE OpAdd(FullBondsAt(L, J, i, N_sites), FullIsingSum(L, J, i + 1, N_sites))

RECURSIVE FullFieldSum(_, _, _, _)
FullFieldSum(h, dh, i, N_sites) ==
    IF i >= N_sites THEN OpZero
    ELSE OpAdd(OpTerm(0 - (h + dh[i + 1]), build_operator(Xops(i), N_sites)),
               FullFieldSum(h, dh, i + 1, N_sites))

build_sparse_tfim_hamiltonian(L, J, h, delta_h) ==
    LET N_sites == L * L
        dh == IF IsNone(delta_h) THEN [i \in 1..N_sites |-> 0] ELSE Val(delta_h)
    IN  IF Len(dh) < N_sites THEN Raise("IndexError")
        ELSE [status |-> "ok", N |-> N_sites,
              terms |-> OpAdd(FullIsingSum(L, J, 0, N_sites),
                              FullFieldSum(h, dh, 0, N_sites))]

\* qfi_streaming.build_local_generators_tfim(L): sigma_x on each site
build_local_generators_tfim(L) ==
    [site \in 1..(L * L) |-> build_operator(Xops(site - 1), L * L)]

-----------------------------------------------------------------------------
(* The operator builders as sparse matrices                                 *)
(*                                                                          *)
(* A sparse matrix is [rows, data]: data maps the (row, column) pairs of    *)
(* its stored entries to their values.                                      *)

RECURSIVE Pow2(_)
Pow2(n) == IF n <= 0 THEN 1 ELSE 2 * Pow2(n - 1)

sigma_x == [rows |-> 2, data |-> (<<0, 1>> :> 1) @@ (<<1, 0>> :> 1)]
sigma_z == [rows |-> 2, data |-> (<<0, 0>> :> 1) @@ (<<1, 1>> :> -1)]
identity == [rows |-> 2, data |-> (<<0, 0>> :> 1) @@ (<<1, 1>> :> 1)]
PauliMatrix(name) == IF name = "X" THEN sigma_x ELSE IF name = "Z" THEN sigma_z ELSE identity

\* a Kronecker product that stores every entry of the result
MatKronDense(A, B) ==
    [rows |-> A.rows * B.rows,
     data |-> [p \in (0..(A.rows * B.rows - 1)) \X (0..(A.rows * B.rows - 1)) |->
                 LET a == <<p[1] \div B.rows, p[2] \div B.rows>>
                     b == <<p[1] % B.rows, p[2] % B.rows>>
                 IN  IF a \in DOMAIN A.data /\ b \in DOMAIN B.data
                     THEN A.data[a] * B.data[b] ELSE 0]]
\* a Kronecker product with its factors exchanged
MatKronSwapped(A, B) ==
    [rows |-> A.rows * B.rows,
     data |-> [p \in {<<b[1] * A.rows + a[1], b[2] * A.rows + a[2]>> :
                        a \in DOMAIN A.data, b \in DOMAIN B.data} |->
                 A.data[<<p[1] % A.rows, p[2] % A.rows>>]
                 * B.data[<<p[1] \div A.rows, p[2] \div A.rows>>]]]
\* scipy.sparse.kron(A, B): one stored entry per pair of stored entries, the
\* entry (ra, ca) of A and (rb, cb) of B giving (ra * rows(B) + rb, ca * rows(B) + cb)
MatKron(A, B) ==
    [rows |-> A.rows * B.rows,
     data |-> [p \in {<<a[1] * B.rows + b[1], a[2] * B.rows + b[2]>> :
                        a \in DOMAIN A.data, b \in DOMAIN B.data} |->
                 A.data[<<p[1] \div B.rows, p[2] \div B.rows>>]
                 * B.data[<<p[1] % B.rows, p[2] % B.rows>>]]]

\* l4_exact_qfi_baseline.build_operator: the loop from site k on; result is
\* None before the first factor
RECURSIVE BaselineOperatorLoop(_, _, _, _)
BaselineOperatorLoop(ops, N_sites, k, result) ==
    IF k >= N_sites THEN result
    ELSE LET op_k == IF k \in DOMAIN ops THEN PauliMatrix(ops[k]) ELSE identity
         IN  BaselineOperatorLoop(ops, N_sites, k + 1,
                 IF IsNone(result) THEN Some(op_k) ELSE Some(MatKron(Val(result), op_k)))
\* it returns result as it is, None when there is no site
BaselineBuildOperator(ops, N_sites) ==
    [status |-> "ok", result |-> BaselineOperatorLoop(ops, N_sites, 0, None)]

\* stress_energy.build_operator: the same loop
RECURSIVE StressOperatorLoop(_, _, _, _)
StressOperatorLoop(ops, N_sites, k, result) ==
    IF k >= N_sites THEN result
    ELSE LET op_k == IF k \in DOMAIN ops THEN PauliMatrix(ops[k]) ELSE identity
         IN  StressOperatorLoop(ops, N_sites, k + 1,
                 IF IsNone(result) THEN Some(op_k) ELSE Some(MatKron(Val(result), op_k)))
\* it returns result.tocsr(): AttributeError on None
StressBuildOperator(ops, N_sites) ==
    LET result == StressOperatorLoop(ops, N_sites, 0, None)
    IN  IF IsNone(result) THEN Raise("AttributeError")
        ELSE [status |-> "ok", result |-> result]

\* qfi_streaming.build_local_generators_tfim: the inner loop from site k on
RECURSIVE GeneratorLoop(_, _, _, _)
GeneratorLoop(site, N_sites, k, op) ==
    IF k >= N_sites THEN op
    ELSE GeneratorLoop(site, N_sites, k + 1,
            IF k = site THEN (IF k > 0 THEN MatKron(op, sigma_x) ELSE sigma_x)
            ELSE (IF k > 0 THEN MatKron(op, identity) ELSE identity))
\* the list of generators, op = identity before each inner loop
MatLocalGenerators(L) ==
    [s \in 1..(L * L) |-> GeneratorLoop(s - 1, L * L, 0, identity)]

KronLs == -1..MaxKronL
\* the dicts given to build_operator: at most two keys, from one below the
\* first site to one above the last
KronOpsDicts(N_sites) ==
    UNION {[keys -> {"X", "Z"}] :
             keys \in {K \in SUBSET ((-1)..N_sites) : Cardinality(K) <= 2}}

KronStart ==
    /\ kronPc = "call"
    /\ kronL \in KronLs
    /\ kronOps \in KronOpsDicts(kronL * kronL)
    /\ kronBase = Unset /\ kronStress = Unset /\ kronGens = Unset

KronIdle ==
    /\ kronPc = "idle" /\ kronL = 0 /\ kronOps = OpZero
    /\ kronBase = Unset /\ kronStress = Unset /\ kronGens = Unset

\* build_operator(ops) of both modules, with N_sites = L * L
KronBuildOperators ==
    /\ kronPc = "call"
    /\ kronBase' = BaselineBuildOperator(kronOps, kronL * kronL)
    /\ kronStress' = StressBuildOperator(kronOps, kronL * kronL)
    /\ kronPc' = "ops"
    /\ UNCHANGED <<kronL, kronOps, kronGens>>
    /\ UNCHANGED KronFrame

\* build_local_generators_tfim(L)
KronBuildGenerators ==
    /\ kronPc = "ops"
    /\ kronGens' = [status |-> "ok", generators |-> MatLocalGenerators(kronL)]
    /\ kronPc' = "done"
    /\ UNCHANGED <<kronL, kronOps, kronBase, kronStress>>
    /\ UNCHANGED KronFrame

KronNext == KronBuildOperators \/ KronBuildGenerators

-----------------------------------------------------------------------------
(* Specification of the assembler: the parameters are drawn once and the    *)
(* full Hamiltonian is built at any time.  Beside it the caller does one of *)
(* three things: it builds the local Hamiltonian of one site, it sums the   *)
(* local Hamiltonians site by site, or it builds the generator list.        *)

Couplings == -1..MaxCoupling
HamLs == -1..MaxL
\* site arguments: None, and every index from two below to two above the range
HamSites(L) == {None} \cup {Some(s) : s \in -2..(L * L + 1)}
\* delta_h arguments: None, or a constant array one shorter, as long or one longer than N
HamDeltaHs(L) ==
    {None} \cup {Some([i \in 1..n |-> d]) : n \in {m \in (L * L - 1)..(L * L + 1) : m >= 0},
                                            d \in 0..1}

HamStart ==
    /\ hamL \in HamLs
    /\ hamJ \in Couplings
    /\ hamH \in Couplings
    /\ hamDeltaH \in HamDeltaHs(hamL)
    /\ hamSite = None
    /\ hamFull = Unset
    /\ hamLocal = Unset
    /\ hamSum = OpZero
    /\ hamNext = 0
    /\ hamGens = Unset

HamIdle ==
    /\ hamL = 0 /\ hamJ = 0 /\ hamH = 0 /\ hamDeltaH = None /\ hamSite = None
    /\ hamFull = Unset /\ hamLocal = Unset /\ hamSum = OpZero /\ hamNext = 0
    /\ hamGens = Unset

BuildFull ==
    /\ hamFull = Unset
    /\ hamFull' = build_sparse_tfim_hamiltonian(hamL, hamJ, hamH, hamDeltaH)
    /\ UNCHANGED <<hamL, hamJ, hamH, hamDeltaH, hamSite, hamLocal, hamSum, hamNext, hamGens>>
    /\ UNCHANGED HamFrame

BuildLocal ==
    /\ hamLocal = Unset /\ hamNext = 0 /\ hamGens = Unset
    /\ \E site \in HamSites(hamL) :
        /\ hamSite' = site
        /\ hamLocal' = build_local_hamiltonian_tfim_2d(hamL, hamJ, hamH, site)
    /\ UNCHANGED <<hamL, hamJ, hamH, hamDeltaH, hamFull, hamSum, hamNext, hamGens>>
    /\ UNCHANGED HamFrame

\* one step of: H_sum = sum(build_local_hamiltonian_tfim_2d(L, J, h, site) for site in range(N))
SumLocal ==
    /\ hamLocal = Unset /\ hamGens = Unset
    /\ hamL > 0
    /\ hamNext < hamL * hamL
    /\ hamSum' = OpAdd(hamSum,
                       build_local_hamiltonian_tfim_2d(hamL, hamJ, hamH, Some(hamNext)).terms)
    /\ hamNext' = hamNext + 1
    /\ UNCHANGED <<hamL, hamJ, hamH, hamDeltaH, hamSite, hamFull, hamLocal, hamGens>>
    /\ UNCHANGED HamFrame

\* generators = build_local_generators_tfim(L): the function has no raise
BuildGenerators ==
    /\ hamGens = Unset /\ hamLocal = Unset /\ hamNext = 0
    /\ hamGens' = [status |-> "ok", generators |-> build_local_generators_tfim(hamL)]
    /\ UNCHANGED <<hamL, hamJ, hamH, hamDeltaH, hamSite, hamFull, hamLocal, hamSum, hamNext>>
    /\ UNCHANGED HamFrame

HamNext == BuildFull \/ BuildLocal \/ SumLocal \/ BuildGenerators

-----------------------------------------------------------------------------
(* qfi_streaming.compute_qfi_matrix_streaming                               *)
(*                                                                          *)
(* An entry of F is recorded as what produced it: the initial zero of       *)
(* np.zeros, or the call compute_local_qfi_element(psi, generators[i],      *)
(* generators[j]) whose result was stored in it.  Entries holding the       *)
(* result of the same call are equal for every state and generator list.    *)

ZeroEntry == [by |-> "zeros"]
QfiElement(psi, i, j) ==
    [by |-> "compute_local_qfi_element", psi |-> psi, gen_i |-> i, gen_j |-> j]

\* list(range(n))
Range(n) == [k \in 1..n |-> k - 1]

\* the test guarding the element computation: upper triangle only
QfiUpperTriangleStrict(i, j) == j > i
QfiUpperTriangle(i, j) == j >= i

\* the two assignments of the loop body
QfiStore(F, psi, i_idx, j_idx, i, j) ==
    LET F1 == [F EXCEPT ![<<i_idx, j_idx>>] = QfiElement(psi, i, j)]
    IN  [F1 EXCEPT ![<<j_idx, i_idx>>] = F1[<<i_idx, j_idx>>]]

\* F after the loop body at (i_idx, j_idx)
QfiBody(F, psi, sites, i_idx, j_idx) ==
    LET i == sites[i_idx + 1]
        j == sites[j_idx + 1]
    IN  IF QfiUpperTriangle(i, j) THEN QfiStore(F, psi, i_idx, j_idx, i, j) ELSE F

\* the two nested loops, run from (i_idx, j_idx) to their end
RECURSIVE QfiLoops(_, _, _, _, _)
QfiLoops(F, psi, sites, i_idx, j_idx) ==
    IF i_idx >= Len(sites) THEN F
    ELSE LET F1 == QfiBody(F, psi, sites, i_idx, j_idx)
         IN  IF j_idx + 1 < Len(sites)
             THEN QfiLoops(F1, psi, sites, i_idx, j_idx + 1)
             ELSE QfiLoops(F1, psi, sites, i_idx + 1, 0)

QfiZeros(n_sites) == [p \in (0..(n_sites - 1)) \X (0..(n_sites - 1)) |-> ZeroEntry]

\* g = F / 4.0 + regularization * np.eye(n_sites), entry by entry
QfiMetric(F, n_sites) ==
    [p \in (0..(n_sites - 1)) \X (0..(n_sites - 1)) |->
        [quarter_of |-> F[p], eye |-> IF p[1] = p[2] THEN 1 ELSE 0]]

\* the whole call: (F, g) for a state psi, n_gen generators and a sites argument
compute_qfi_matrix_streaming(psi, n_gen, sites_arg) ==
    LET sites == IF IsNone(sites_arg) THEN Range(n_gen) ELSE Val(sites_arg)
        F == QfiLoops(QfiZeros(Len(sites)), psi, sites, 0, 0)
    IN  [F |-> F, g |-> QfiMetric(F, Len(sites))]

QfiSiteLists(n_gen) ==
    {None} \cup {Some(l) : l \in UNION {[1..len -> 0..(n_gen - 1)] : len \in 0..MaxSitesLen}}

QfiStart ==
    /\ qfiPc = "call"
    /\ qfiNGen \in 1..MaxGen
    /\ qfiSites \in QfiSiteLists(qfiNGen)
    /\ qfiI = 0 /\ qfiJ = 0
    /\ qfiF = OpZero
    /\ qfiG = Unset
    /\ qfiCalls = 0

QfiIdle ==
    /\ qfiPc = "idle" /\ qfiNGen = 0 /\ qfiSites = None /\ qfiI = 0 /\ qfiJ = 0
    /\ qfiF = OpZero /\ qfiG = Unset /\ qfiCalls = 0

\* lines 104-112: default site list, F = np.zeros((n_sites, n_sites))
QfiEnter ==
    /\ qfiPc = "call"
    /\ LET sites == IF IsNone(qfiSites) THEN Range(qfiNGen) ELSE Val(qfiSites)
           n_sites == Len(sites)
       IN  /\ qfiSites' = Some(sites)
           /\ qfiF' = QfiZeros(n_sites)
    /\ qfiPc' = "loop"
    /\ UNCHANGED <<qfiNGen, qfiI, qfiJ, qfiG, qfiCalls>>
    /\ UNCHANGED QfiFrame

\* lines 115-123: one iteration of the inner loop, at (i_idx, j_idx)
QfiIterate ==
    /\ qfiPc = "loop"
    /\ LET sites == Val(qfiSites)
           n_sites == Len(sites)
       IN  /\ qfiI < n_sites
           /\ qfiF' = QfiBody(qfiF, "psi", sites, qfiI, qfiJ)
           /\ qfiCalls' = IF QfiUpperTriangle(sites[qfiI + 1], sites[qfiJ + 1])
                          THEN qfiCalls + 1 ELSE qfiCalls
           /\ IF qfiJ + 1 < n_sites
              THEN qfiJ' = qfiJ + 1 /\ qfiI' = qfiI
              ELSE qfiJ' = 0 /\ qfiI' = qfiI + 1
    /\ UNCHANGED <<qfiPc, qfiNGen, qfiSites, qfiG>>
    /\ UNCHANGED QfiFrame

\* lines 125-128: the loops are over; build g and return (F, g)
QfiReturn ==
    /\ qfiPc = "loop"
    /\ qfiI >= Len(Val(qfiSites))
    /\ qfiG' = [status |-> "ok", g |-> QfiMetric(qfiF, Len(Val(qfiSites)))]
    /\ qfiPc' = "done"
    /\ UNCHANGED <<qfiNGen, qfiSites, qfiI, qfiJ, qfiF, qfiCalls>>
    /\ UNCHANGED QfiFrame

QfiNext == QfiEnter \/ QfiIterate \/ QfiReturn

-----------------------------------------------------------------------------
(* The element computations of compute_qfi_matrix_streaming, in any order *)

\* the loop iterations (i_idx, j_idx) whose test passes: one call of
\* compute_local_qfi_element each
QfiEveryPair(sites) ==
    (0..(Len(sites) - 1)) \X (0..(Len(sites) - 1))
QfiElementTasks(sites) ==
    {p \in (0..(Len(sites) - 1)) \X (0..(Len(sites) - 1)) :
        QfiUpperTriangle(sites[p[1] + 1], sites[p[2] + 1])}

\* line 118: F[i_idx, j_idx] = compute_local_qfi_element(psi, generators[i], generators[j])
QfiWriteElement(F, psi, sites, p) ==
    [F EXCEPT ![p] = QfiElement(psi, sites[p[1] + 1], sites[p[2] + 1])]

\* line 123: F[j_idx, i_idx] = F[i_idx, j_idx]
QfiWriteMirror(F, p) == [F EXCEPT ![<<p[2], p[1]>>] = F[p]]

QfoStart ==
    /\ qfoPc = "run"
    /\ qfoN \in 0..MaxGen
    /\ qfoTasks = [p \in QfiElementTasks(Range(qfoN)) |-> 0]
    /\ qfoF = QfiZeros(qfoN)

QfoIdle ==
    /\ qfoPc = "idle" /\ qfoN = 0 /\ qfoTasks = OpZero /\ qfoF = OpZero

\* some element computation that has not started stores its element
QfoElement ==
    /\ qfoPc = "run"
    /\ \E p \in DOMAIN qfoTasks :
          /\ qfoTasks[p] = 0
          /\ qfoF' = QfiWriteElement(qfoF, "psi", Range(qfoN), p)
          /\ qfoTasks' = [qfoTasks EXCEPT ![p] = 1]
    /\ UNCHANGED <<qfoPc, qfoN>>
    /\ UNCHANGED QfoFrame

\* some element computation that has stored its element copies it to the mirror slot
QfoMirror ==
    /\ qfoPc = "run"
    /\ \E p \in DOMAIN qfoTasks :
          /\ qfoTasks[p] = 1
          /\ qfoF' = QfiWriteMirror(qfoF, p)
          /\ qfoTasks' = [qfoTasks EXCEPT ![p] = 2]
    /\ UNCHANGED <<qfoPc, qfoN>>
    /\ UNCHANGED QfoFrame

QfoNext == QfoElement \/ QfoMirror

-----------------------------------------------------------------------------
(* Floating-point values, as exact fractions                                *)
(*                                                                          *)
(* A float is [n, d] with d >= 0, standing for n/d; d = 0 stands for the    *)
(* IEEE results of a division by zero: 0/0 is NaN, x/0 is +inf or -inf.     *)
(* Rounding is not modelled.                                                *)

RECURSIVE Gcd(_, _)
Gcd(a, b) == IF b = 0 THEN a ELSE Gcd(b, a % b)
Abs(k) == IF k < 0 THEN 0 - k ELSE k
\* the fraction n/d (d >= 0) in lowest terms; the infinities as 1/0 and -1/0
Frac(n, d) ==
    IF d = 0 THEN [n |-> (IF n > 0 THEN 1 ELSE IF n < 0 THEN -1 ELSE 0), d |-> 0]
    ELSE LET g == Gcd(Abs(n), d) IN [n |-> n \div g, d |-> d \div g]

Float(x) == [n |-> x, d |-> 1]
NaN == [n |-> 0, d |-> 0]
IsNaN(x) == x.d = 0 /\ x.n = 0
IsInf(x) == x.d = 0 /\ x.n # 0
IsFinite(x) == x.d > 0
Sign(k) == IF k > 0 THEN 1 ELSE IF k < 0 THEN -1 ELSE 0

\* numpy's a / b on float64 scalars: no exception, NaN or inf on a zero divisor
NpDiv(a, b) ==
    IF IsNaN(a) \/ IsNaN(b) THEN NaN
    ELSE IF IsInf(a) /\ IsInf(b) THEN NaN
    ELSE IF IsInf(a) THEN Frac(IF b.n < 0 THEN 0 - a.n ELSE a.n, 0)
    ELSE IF IsInf(b) THEN Float(0)
    ELSE IF b.n = 0 THEN Frac(a.n, 0)
    ELSE Frac(a.n * b.d * Sign(b.n), a.d * b.n * Sign(b.n))

\* a - b
NpSub(a, b) ==
    IF IsNaN(a) \/ IsNaN(b) THEN NaN
    ELSE IF IsInf(a) /\ IsInf(b) THEN (IF a.n = b.n THEN NaN ELSE a)
    ELSE IF IsInf(a) THEN a
    ELSE IF IsInf(b) THEN Frac(0 - b.n, 0)
    ELSE Frac(a.n * b.d - b.n * a.d, a.d * b.d)

\* comparisons: every comparison with NaN is false
FloatEq(a, b) == ~IsNaN(a) /\ ~IsNaN(b) /\ Frac(a.n, a.d) = Frac(b.n, b.d)
FloatLt(a, b) ==
    /\ ~IsNaN(a) /\ ~IsNaN(b)
    /\ IF IsFinite(a) /\ IsFinite(b) THEN a.n * b.d < b.n * a.d
       ELSE IF IsInf(a) /\ IsInf(b) THEN a.n < b.n
       ELSE IF IsInf(a) THEN a.n < 0
       ELSE b.n > 0
FloatGt(a, b) == FloatLt(b, a)

RECURSIVE SumSeq(_)
SumSeq(v) == IF Len(v) = 0 THEN 0 ELSE Head(v) + SumSeq(Tail(v))
\* elementwise products and squares of arrays
Times(u, v) == [k \in 1..Len(u) |-> u[k] * v[k]]
Squares(u) == Times(u, u)

-----------------------------------------------------------------------------
(* l4_exact_qfi_baseline.compute_geometry_from_qfi, on integer metrics *)

\* a * b on float64 scalars
NpMul(a, b) ==
    IF IsNaN(a) \/ IsNaN(b) THEN NaN
    ELSE IF (IsInf(a) /\ b.n = 0) \/ (IsInf(b) /\ a.n = 0) THEN NaN
    ELSE Frac(a.n * b.n, a.d * b.d)

\* np.diag(g), np.trace(g)
np_diag(g) == [i \in 1..Len(g) |-> g[i][i]]
\* the sum of all the entries of g, off the diagonal too
np_sum_all(g) == Float(SumSeq([i \in 1..Len(g) |-> SumSeq(g[i])]))
np_trace(g) == Float(SumSeq(np_diag(g)))
\* the sum of the entries, not divided by their number
np_sum(v) == Float(SumSeq(v))
\* np.mean(v): the sum over the number of entries, NaN for an empty array
np_mean(v) == NpDiv(Float(SumSeq(v)), Float(Len(v)))

\* lines 210-245; regularization is a parameter the body never reads
compute_geometry_from_qfi(g, regularization) ==
    LET R_scalar == np_trace(g)
        mean == np_mean(np_diag(g))
        R_diag == [i \in 1..Len(g) |-> NpSub(Float(np_diag(g)[i]), mean)]
        G_diag == [i \in 1..Len(g) |->
                     NpSub(R_diag[i], NpMul(NpMul(Frac(1, 2), R_scalar), Float(np_diag(g)[i])))]
    IN  [status |-> "ok", R_diag |-> R_diag, G_diag |-> G_diag]

\* the metrics given to it: any diagonal, one value off the diagonal
GeoMetrics ==
    UNION {{[i \in 1..N |-> [j \in 1..N |-> IF i = j THEN d[i] ELSE c]] :
               d \in [1..N -> -1..MaxGeoVal], c \in 0..1} : N \in 0..MaxGeoN}

\* the regularization arguments: the default 1e-6, none, and a large one
GeoRegularizations == {Frac(1, 1000000), Float(0), Float(1)}

GeoStart ==
    /\ geoPc = "call"
    /\ geoG \in GeoMetrics
    /\ geoOut = Unset
    /\ geoReg \in GeoRegularizations
    /\ geoG0 = geoG

GeoIdle ==
    /\ geoPc = "idle" /\ geoG = <<>> /\ geoOut = Unset
    /\ geoReg = Float(0) /\ geoG0 = <<>>

\* lines 231-245: the whole function
GeoCompute ==
    /\ geoPc = "call"
    /\ geoOut' = compute_geometry_from_qfi(geoG, geoReg)
    /\ geoPc' = "done"
    /\ UNCHANGED <<geoG, geoReg, geoG0>>
    /\ UNCHANGED GeoFrame

GeoNext == GeoCompute

-----------------------------------------------------------------------------
(* l4_exact_qfi_baseline.fit_einstein_relation                              *)

\* SS_tot taken about the mean of G, as in the usual R^2
FitSStotAboutMean(G) ==
    NpDiv(Float(Len(G) * SumSeq(Squares(G)) - SumSeq(G) * SumSeq(G)), Float(Len(G)))
\* SS_tot = np.sum(G**2)
FitSStot(G) == Float(SumSeq(Squares(G)))

\* free_intercept = False: the fit forced through the origin (lines 274-281)
FitDenominator(T) == SumSeq(Squares(T))
FitThroughOrigin(G, T) ==
    LET kappa == NpDiv(Float(SumSeq(Times(G, T))), Float(FitDenominator(T)))
        \* SS_res = sum((G - kappa*T)**2), over the common denominator kappa.d^2
        SS_res == IF IsFinite(kappa)
                  THEN Frac(SumSeq(Squares([k \in 1..Len(G) |->
                                              G[k] * kappa.d - kappa.n * T[k]])),
                            kappa.d * kappa.d)
                  ELSE NaN
        SS_tot == FitSStot(G)
        R2 == NpSub(Float(1), NpDiv(SS_res, SS_tot))
    IN  [status |-> "ok", kappa |-> kappa, b |-> Float(0), R2 |-> R2]

\* free_intercept = True: scipy.stats.linregress(T, G), by the least-squares
\* formulas.  When all T values are identical the slope is 0/0: recent scipy
\* raises ValueError, older scipy returns NaN; raises tells which is installed.
FitLinregress(G, T, raises) ==
    LET n == Len(T)
        Sxy == n * SumSeq(Times(T, G)) - SumSeq(T) * SumSeq(G)
        Sxx == n * SumSeq(Squares(T)) - SumSeq(T) * SumSeq(T)
        Syy == n * SumSeq(Squares(G)) - SumSeq(G) * SumSeq(G)
        slope == NpDiv(Float(Sxy), Float(Sxx))
        intercept == IF IsFinite(slope)
                     THEN NpDiv(Float(SumSeq(G) * Sxx - Sxy * SumSeq(T)), Float(n * Sxx))
                     ELSE NaN
        r2 == IF Sxx = 0 \/ Syy = 0 THEN Float(0)
              ELSE NpDiv(Float(Sxy * Sxy), Float(Sxx * Syy))
    IN  IF n = 0 THEN Raise("ValueError")
        ELSE IF Sxx = 0 /\ n > 1 /\ raises THEN Raise("ValueError")
        ELSE [status |-> "ok", kappa |-> slope, b |-> intercept, R2 |-> r2]

fit_einstein_relation(G, T, free_intercept, raises) ==
    IF free_intercept THEN FitLinregress(G, T, raises) ELSE FitThroughOrigin(G, T)

-----------------------------------------------------------------------------
(* Regime classifiers                                                       *)
(*                                                                          *)
(* An activation is a non-negative real sqrt(sq)/den or its negative, kept  *)
(* as [neg, sq, den] so that the norm-based activation of the orchestrator  *)
(* is exact.  Thresholds are in hundredths.                                 *)

Hundredths(a) == [neg |-> a < 0, sq |-> a * a, den |-> 100]
\* activation < t/100
ActivationBelow(act, t) ==
    IF act.neg THEN act.sq > 0 \/ t > 0
    ELSE t > 0 /\ 10000 * act.sq < t * t * act.den * act.den

\* activation <= t/100
ActivationAtMost(act, t) ==
    IF act.neg THEN t >= 0
    ELSE t >= 0 /\ 10000 * act.sq <= t * t * act.den * act.den

LinearBelow == 30
GeometricBelow == 70

\* the classifier with its first comparison made inclusive
ClassifyL4Inclusive(act) ==
    IF ActivationAtMost(act, LinearBelow) THEN "linear"
    ELSE IF ActivationBelow(act, GeometricBelow) THEN "geometric"
    ELSE "breakdown"

\* l4_exact_qfi_baseline.run_l4_validation, lines 450-455
ClassifyL4(act) ==
    IF ActivationBelow(act, LinearBelow) THEN "linear"
    ELSE IF ActivationBelow(act, GeometricBelow) THEN "geometric"
    ELSE "breakdown"

\* test_single_run.py, lines 265-270
ClassifySingleRun(act) ==
    IF ActivationBelow(act, LinearBelow) THEN "linear"
    ELSE IF ActivationBelow(act, GeometricBelow) THEN "geometric"
    ELSE "breakdown"

\* EnhancedQIGNetwork._classify_regime, lines 167-172
ClassifyNetwork(act) ==
    IF ActivationBelow(act, LinearBelow) THEN "linear"
    ELSE IF ActivationBelow(act, GeometricBelow) THEN "geometric"
    ELSE "breakdown"

-----------------------------------------------------------------------------
(* One call of fit_einstein_relation on arrays G = c*T + e, where e is zero *)
(* or a unit bump of the first entry.                                       *)

FitTs == UNION {[1..len -> 0..MaxFitVal] : len \in 0..MaxFitLen}
FitGs(T) ==
    {[k \in 1..Len(T) |-> c * T[k] + (IF k = 1 THEN e ELSE 0)] : c \in -2..2, e \in 0..1}

FitStart ==
    /\ fitPc = "call"
    /\ fitT \in FitTs
    /\ fitG \in FitGs(fitT)
    /\ fitFree \in BOOLEAN
    /\ fitResult = Unset

FitIdle ==
    /\ fitPc = "idle" /\ fitT = <<>> /\ fitG = <<>> /\ fitFree = FALSE /\ fitResult = Unset

FitCall ==
    /\ fitPc = "call"
    /\ \E raises \in BOOLEAN :
          fitResult' = fit_einstein_relation(fitG, fitT, fitFree, raises)
    /\ fitPc' = "done"
    /\ UNCHANGED <<fitG, fitT, fitFree>>
    /\ UNCHANGED FitFrame

FitNext == FitCall

-----------------------------------------------------------------------------
(* One activation value classified by the three copies of the classifier    *)

RegStart ==
    /\ regPc = "call"
    /\ regAct \in -10..MaxActivation
    /\ regLabels = Unset

RegIdle ==
    /\ regPc = "idle" /\ regAct = 0 /\ regLabels = Unset

RegClassify ==
    /\ regPc = "call"
    /\ regLabels' = [status |-> "ok",
                     l4 |-> ClassifyL4(Hundredths(regAct)),
                     single_run |-> ClassifySingleRun(Hundredths(regAct)),
                     network |-> ClassifyNetwork(Hundredths(regAct))]
    /\ regPc' = "done"
    /\ UNCHANGED regAct
    /\ UNCHANGED RegFrame

RegNext == RegClassify

-----------------------------------------------------------------------------
(* The script l4_exact_qfi_baseline.py: state vectors and library calls     *)
(*                                                                          *)
(* A state vector is written as the sequence of its one-site factors, site  *)
(* 0 first: "x", "y", "z" name the +1 eigenvector of the Pauli matrix.  The  *)
(* expectation of a Kronecker product of Pauli matrices in such a state is  *)
(* the product of the one-site expectations.                                 *)

SiteExpect(op, s) ==
    IF op = "I" THEN 1
    ELSE IF (op = "X" /\ s = "x") \/ (op = "Z" /\ s = "z") THEN 1
    ELSE 0

RECURSIVE ProductExpect(_, _, _)
ProductExpect(factors, psi, k) ==
    IF k > Len(factors) THEN 1
    ELSE SiteExpect(factors[k], psi[k]) * ProductExpect(factors, psi, k + 1)

RECURSIVE ExpectOver(_, _, _)
ExpectOver(terms, psi, S) ==
    IF S = {} THEN 0
    ELSE LET s == CHOOSE t \in S : TRUE
         IN  terms[s] * ProductExpect(s, psi, 1) + ExpectOver(terms, psi, S \ {s})

\* np.real(np.vdot(psi, H @ psi))
Expect(terms, psi) == ExpectOver(terms, psi, DOMAIN terms)

\* the states the eigensolver is taken to return for an N-site matrix
PsiFamily(N) ==
    {[k \in 1..N |-> "x"], [k \in 1..N |-> "z"],
     [k \in 1..N |-> IF k <= 1 THEN "y" ELSE "x"],
     [k \in 1..N |-> IF k <= 2 THEN "y" ELSE "x"],
     [k \in 1..N |-> IF k = N THEN "y" ELSE "z"]}

\* find_ground_state_sparse(H): the outcomes of eigsh(H, k=1, which='SA').
\* eigsh rejects a sparse matrix whose dimension does not exceed k (the 1x1
\* matrix of an empty lattice); otherwise it returns an eigenpair, the energy
\* being the expectation of H in the returned state, or fails to converge.
find_ground_state_sparse(H) ==
    IF H.N = 0 THEN {Raise("TypeError")}
    ELSE {Raise("ArpackNoConvergence")}
         \cup {[status |-> "ok", E0 |-> Expect(H.terms, psi), psi0 |-> psi] :
                 psi \in PsiFamily(H.N)}

\* a cross-check that compares the two sizes
validate_by_size(L_small, L_large) == L_small <= L_large
\* validate_against_smaller_system: validated = True, whatever the arguments
validate_against_smaller_system(L_small, L_large) == TRUE

\* np.random.seed(seed); np.random.uniform(0, high, n): the k-th draw is a
\* fixed function of the seed and of k, with values in [0, high).  The
\* generator's stream is stood for by quarters of high.
RandQuarter(seed, k) == (5 * seed + 3 * k + 1) % 4
np_random_uniform(seed, high, n) == [k \in 1..n |-> (high * RandQuarter(seed, k)) \div 4]

\* stress_energy.compute_stress_energy_streaming(psi, L, J, h, sites)
compute_stress_energy_streaming(psi, L, J, h, sites_arg) ==
    LET N_sites == L * L
        sites == IF IsNone(sites_arg) THEN [k \in 1..N_sites |-> k - 1] ELSE Val(sites_arg)
        H_local == [idx \in 1..Len(sites) |->
                      build_local_hamiltonian_tfim_2d(L, J, h, Some(sites[idx]))]
        failed == {idx \in 1..Len(sites) : H_local[idx].status = "raise"}
    IN  IF failed # {}
        THEN H_local[CHOOSE idx \in failed : \A other \in failed : idx <= other]
        ELSE [status |-> "ok",
              T |-> [idx \in 1..Len(sites) |-> Expect(H_local[idx].terms, psi)]]

\* The Einstein tensors returned by compute_geometry_from_qfi are float
\* vectors in which the regularisation 1e-6 of the metric enters to second
\* order; their values are not evaluated here.  The tensor of the baseline
\* metric is taken to be the zero vector and that of the perturbed metric is
\* taken from a family of vectors, zero beyond the fourth entry.
EinsteinShapes ==
    {<<0, 0, 0, 0>>, <<50, 50, 0, 0>>, <<64, 64, 0, 0>>, <<80, 80, 0, 0>>,
     <<0, 36, 42, 114>>, <<90, 40, 0, 0>>}
EinsteinFamily(N) == {[k \in 1..N |-> IF k <= 4 THEN s[k] ELSE 0] : s \in EinsteinShapes}
EinsteinBaseline(N) == {[k \in 1..N |-> 0]}

\* elementwise a - b of two arrays
ArraySub(a, b) == [k \in 1..Len(a) |-> a[k] - b[k]]
\* all entries of v are equal: its variance is zero
ArrayIsConstant(v) == \A k \in 1..Len(v) : v[k] = v[1]
\* np.linalg.norm(v) / den, as an activation
NormOver(v, den) == [neg |-> FALSE, sq |-> SumSeq(Squares(v)), den |-> den]
-----------------------------------------------------------------------------
(* The script l4_exact_qfi_baseline.py: __main__ and run_l4_validation       *)
(*                                                                          *)
(* J and h are the defaults 1.0 of run_l4_validation.  The matrices H_0 and *)
(* H_1, the perturbation delta_h and the energies E_0, E_1 are in           *)
(* hundredths; the stress-energy and Einstein vectors are in units.         *)

RunDeltaHs == {20, 60}
RunLs == {0, 2}

\* the stages of run_l4_validation, in the order of its statements
RunStagesStressFirst ==
    <<"baseline", "perturbed", "qfi", "stress", "geometry", "fit", "summary">>
RunStagesQfiBeforePerturbed ==
    <<"baseline", "qfi", "perturbed", "geometry", "stress", "fit", "summary">>
RunStages ==
    <<"baseline", "perturbed", "qfi", "geometry", "stress", "fit", "summary">>

StageIndex(stage) == CHOOSE k \in 1..Len(RunStages) : RunStages[k] = stage
RunNextStage(stage) ==
    IF StageIndex(stage) = Len(RunStages) THEN "write"
    ELSE RunStages[StageIndex(stage) + 1]

\* an uncaught exception ends the process
RunRaise(e) ==
    /\ runPc' = "Crashed"
    /\ runError' = Some(e)
    /\ UNCHANGED <<runLocals, runTrace>>

\* a stage of run_l4_validation has run to its last statement
RunAdvance(stage, done) ==
    /\ runPc' = RunNextStage(stage)
    /\ runTrace' = Append(runTrace, done)
    /\ UNCHANGED runError

\* the success flag with its comparisons made inclusive
RunSuccessInclusive(kappa, R2) ==
    /\ ~FloatLt(R2, Frac(95, 100)) /\ ~IsNaN(R2)
    /\ ~FloatLt(kappa, Float(50)) /\ ~FloatGt(kappa, Float(80)) /\ ~IsNaN(kappa)
\* success = R2 > 0.95 and 50 < kappa < 80
RunSuccess(kappa, R2) ==
    /\ FloatGt(R2, Frac(95, 100))
    /\ FloatLt(Float(50), kappa) /\ FloatLt(kappa, Float(80))

\* the keys of the results dict, in insertion order
ResultKeys ==
    <<"seed", "delta_h", "L", "kappa", "R2", "intercept", "regime", "E_0", "E_1",
      "delta_E", "norm_delta_G", "norm_delta_T", "success", "timestamp">>

\* json.dump(results, f): the keys are written in insertion order; a value
\* of type numpy.bool_ is not serialisable and raises TypeError after the
\* keys before it have been written.
json_dump(results, keys) ==
    LET bad == {k \in 1..Len(keys) : keys[k] = "success" /\ results.success.numpy}
        stop == IF bad = {} THEN Len(keys) + 1
                ELSE CHOOSE k \in bad : \A other \in bad : k <= other
        written == {keys[k] : k \in 1..(stop - 1)}
    IN  [status |-> IF bad = {} THEN "ok" ELSE "raise",
         error |-> "TypeError",
         file |-> [complete |-> bad = {}, record |-> [key \in written |-> results[key]]]]

\* the delta_h argument of the baseline build, drawn from the generator
BaselineDeltaHDrawn(seed, high, n) == Some(np_random_uniform(seed, high, n))
\* line 346: H_0 = build_sparse_tfim_hamiltonian(L, J, h, delta_h=None)
BaselineDeltaH(seed, high, n) == None

RunStart ==
    /\ runPc = "Init"
    /\ runArgs = Unset
    /\ runLocals = Unset
    /\ runTrace = <<>>
    /\ runResults = Unset
    /\ runOutput = Unset
    /\ runError = None
    /\ runCount = 0
    /\ runPrev = None

RunIdle == RunStart

\* __main__, lines 503-524, and run_l4_validation up to the cross-check,
\* lines 312-329
MainStart ==
    /\ runPc \in {"Init", "Reported", "Crashed"}
    /\ runCount < MaxRuns
    /\ runCount' = runCount + 1
    /\ \E seed \in 0..MaxSeed, delta_h_value \in RunDeltaHs, L \in RunLs :
          /\ runArgs' = [seed |-> seed, delta_h_value |-> delta_h_value, L |-> L,
                         J |-> 1, h |-> 1]
          /\ runLocals' = [N_sites |-> L * L]
          /\ IF validate_against_smaller_system(3, L)
             THEN runPc' = RunStages[1] /\ runResults' = Unset
             ELSE runPc' = "write" /\ runResults' = [error |-> "Cross-validation failed"]
    /\ runTrace' = <<>>
    /\ runOutput' = Unset
    /\ runError' = None
    /\ runPrev' = IF "regime" \in DOMAIN runResults
                  THEN Some([delta_h |-> runResults.delta_h, h |-> runArgs.h,
                             regime |-> runResults.regime,
                             seed |-> runArgs.seed, L |-> runArgs.L,
                             H_0 |-> runLocals.H_0, H_1 |-> runLocals.H_1])
                  ELSE runPrev
    /\ UNCHANGED RunFrame

\* Step 1, lines 338-350: baseline ground state
RunBaseline ==
    /\ runPc = "baseline"
    /\ LET H_0 == build_sparse_tfim_hamiltonian(runArgs.L, 100 * runArgs.J, 100 * runArgs.h,
                      BaselineDeltaH(runArgs.seed, runArgs.delta_h_value, runLocals.N_sites))
       IN  IF H_0.status = "raise" THEN RunRaise(H_0.error)
           ELSE \E out \in find_ground_state_sparse(H_0) :
                   IF out.status = "raise" THEN RunRaise(out.error)
                   ELSE /\ runLocals' = [H_0 |-> H_0, E_0 |-> out.E0,
                                         psi_0 |-> out.psi0] @@ runLocals
                        /\ RunAdvance("baseline", "BaselineSolve")
    /\ UNCHANGED <<runArgs, runResults, runOutput, runCount, runPrev>>
    /\ UNCHANGED RunFrame

\* Step 2, lines 359-371: perturbed ground state
RunPerturbed ==
    /\ runPc = "perturbed"
    /\ LET delta_h == np_random_uniform(runArgs.seed, runArgs.delta_h_value,
                                        runLocals.N_sites)
           H_1 == build_sparse_tfim_hamiltonian(runArgs.L, 100 * runArgs.J,
                                                100 * runArgs.h, Some(delta_h))
       IN  IF H_1.status = "raise" THEN RunRaise(H_1.error)
           ELSE \E out \in find_ground_state_sparse(H_1) :
                   IF out.status = "raise" THEN RunRaise(out.error)
                   ELSE /\ runLocals' = [delta_h |-> delta_h, H_1 |-> H_1,
                                         E_1 |-> out.E0, psi_1 |-> out.psi0] @@ runLocals
                        /\ RunAdvance("perturbed", "PerturbedSolve")
    /\ UNCHANGED <<runArgs, runResults, runOutput, runCount, runPrev>>
    /\ UNCHANGED RunFrame

\* lines 380-398: generators and the QFI of both states
RunQfi ==
    /\ runPc = "qfi"
    /\ "psi_0" \in DOMAIN runLocals /\ "psi_1" \in DOMAIN runLocals
    /\ LET generators == build_local_generators_tfim(runArgs.L)
       IN  IF Len(generators) = 0 THEN RunRaise("IndexError")
           ELSE /\ runLocals' =
                      [qfi_0 |-> compute_qfi_matrix_streaming(runLocals.psi_0,
                                                              Len(generators), None),
                       qfi_1 |-> compute_qfi_matrix_streaming(runLocals.psi_1,
                                                              Len(generators), None)]
                      @@ runLocals
                /\ RunAdvance("qfi", "QFIComputed")
    /\ UNCHANGED <<runArgs, runResults, runOutput, runCount, runPrev>>
    /\ UNCHANGED RunFrame

\* lines 400-405: Ricci and Einstein tensors of both metrics
RunGeometry ==
    /\ runPc = "geometry"
    /\ "qfi_0" \in DOMAIN runLocals /\ "qfi_1" \in DOMAIN runLocals
    /\ \E G_0 \in EinsteinBaseline(runLocals.N_sites),
          G_1 \in EinsteinFamily(runLocals.N_sites) :
          runLocals' = [G_0 |-> G_0, G_1 |-> G_1, dG |-> ArraySub(G_1, G_0)] @@ runLocals
    /\ RunAdvance("geometry", "GeometryComputed")
    /\ UNCHANGED <<runArgs, runResults, runOutput, runCount, runPrev>>
    /\ UNCHANGED RunFrame

\* Step 4, lines 414-430: stress-energy of both states
RunStress ==
    /\ runPc = "stress"
    /\ "psi_0" \in DOMAIN runLocals /\ "psi_1" \in DOMAIN runLocals
    /\ LET T_0 == compute_stress_energy_streaming(runLocals.psi_0, runArgs.L,
                                                  runArgs.J, runArgs.h, None)
           T_1 == compute_stress_energy_streaming(runLocals.psi_1, runArgs.L,
                                                  runArgs.J, runArgs.h, None)
       IN  IF T_0.status = "raise" THEN RunRaise(T_0.error)
           ELSE IF T_1.status = "raise" THEN RunRaise(T_1.error)
           ELSE /\ runLocals' = [T_0 |-> T_0.T, T_1 |-> T_1.T,
                                 dT |-> ArraySub(T_1.T, T_0.T)] @@ runLocals
                /\ RunAdvance("stress", "StressComputed")
    /\ UNCHANGED <<runArgs, runResults, runOutput, runCount, runPrev>>
    /\ UNCHANGED RunFrame

\* Step 5, lines 439-455: fit with a free intercept, then the regime.
\* linregress returns r as the Python float 0.0 when either variance is
\* zero and as a numpy scalar otherwise; later scipy returns numpy scalars
\* throughout (python_r tells which).
RunFit ==
    /\ runPc = "fit"
    /\ \E raises \in BOOLEAN, python_r \in BOOLEAN :
          LET fit == fit_einstein_relation(runLocals.dG, runLocals.dT, TRUE, raises)
              flat == python_r /\ (ArrayIsConstant(runLocals.dT)
                                    \/ ArrayIsConstant(runLocals.dG))
          IN  IF fit.status = "raise" THEN RunRaise(fit.error)
              ELSE /\ runLocals' =
                         [kappa |-> fit.kappa, b |-> fit.b, R2 |-> fit.R2,
                          R2_numpy |-> ~flat,
                          avg_activation |-> NormOver(runLocals.dT, runLocals.N_sites),
                          regime |-> ClassifyL4(NormOver(runLocals.dT, runLocals.N_sites))]
                         @@ runLocals
                   /\ RunAdvance("fit", "Fitted")
    /\ UNCHANGED <<runArgs, runResults, runOutput, runCount, runPrev>>
    /\ UNCHANGED RunFrame

\* Summary, lines 466-496: the success flag and the results dict.  The flag
\* has the type of the comparison R2 > 0.95: numpy.bool_ for a numpy scalar.
RunSummarize ==
    /\ runPc = "summary"
    /\ runResults' =
          [seed |-> runArgs.seed,
           delta_h |-> runArgs.delta_h_value,
           L |-> runArgs.L,
           kappa |-> runLocals.kappa,
           R2 |-> runLocals.R2,
           intercept |-> runLocals.b,
           regime |-> runLocals.regime,
           E_0 |-> runLocals.E_0,
           E_1 |-> runLocals.E_1,
           delta_E |-> runLocals.E_1 - runLocals.E_0,
           norm_delta_G |-> NormOver(runLocals.dG, 1),
           norm_delta_T |-> NormOver(runLocals.dT, 1),
           success |-> [value |-> RunSuccess(runLocals.kappa, runLocals.R2),
                        numpy |-> runLocals.R2_numpy],
           timestamp |-> "strftime"]
    /\ RunAdvance("summary", "Reported")
    /\ UNCHANGED <<runArgs, runLocals, runOutput, runCount, runPrev>>
    /\ UNCHANGED RunFrame

\* __main__, lines 525-532: the runtime fields are added and the dict is
\* dumped to the output file
MainWrite ==
    /\ runPc = "write"
    /\ LET timed == [runtime_seconds |-> "t_total", runtime_minutes |-> "t_total / 60"]
                    @@ runResults
           keys == (IF "error" \in DOMAIN runResults THEN <<"error">> ELSE ResultKeys)
                   \o <<"runtime_seconds", "runtime_minutes">>
           dumped == json_dump(timed, keys)
       IN  /\ runResults' = timed
           /\ runOutput' = dumped.file
           /\ IF dumped.status = "raise"
              THEN runPc' = "Crashed" /\ runError' = Some(dumped.error)
              ELSE runPc' = "Reported" /\ runError' = runError
    /\ UNCHANGED <<runArgs, runLocals, runTrace, runCount, runPrev>>
    /\ UNCHANGED RunFrame

RunNext ==
    \/ MainStart
    \/ RunBaseline
    \/ RunPerturbed
    \/ RunQfi
    \/ RunGeometry
    \/ RunStress
    \/ RunFit
    \/ RunSummarize
    \/ MainWrite

-----------------------------------------------------------------------------
(* compute_stress_energy_streaming step by step, and compute_stress_energy_parallel *)

StressLs == 0..2
\* sites arguments: None, or a list of sites of the lattice
StressSites(L) ==
    {None} \cup {Some(<<a>>) : a \in 0..(L * L - 1)}
           \cup {Some(<<a, b>>) : a \in 0..(L * L - 1), b \in 0..(L * L - 1)}

\* lines 141-146: N_sites, the default sites, T = np.zeros(len(sites))
StressSiteList(L, sites_arg) ==
    IF IsNone(sites_arg) THEN [k \in 1..(L * L) |-> k - 1] ELSE Val(sites_arg)

\* compute_stress_energy_parallel(psi, L, J, h): pool.map pickles the function
\* it is given to send it to the workers; worker is a local function, which
\* pickle refuses (AttributeError: Can't pickle local object). With no site
\* there is no task to send and the result is the empty array.
compute_stress_energy_parallel(psi, L, J, h) ==
    IF L * L = 0 THEN [status |-> "ok", T |-> <<>>]
    ELSE Raise("AttributeError")

StrStart ==
    /\ strPc = "loop"
    /\ \E L \in StressLs, J \in Couplings, h \in Couplings :
         \E psi \in PsiFamily(L * L), sites \in StressSites(L) :
            strArgs = [psi |-> psi, L |-> L, J |-> J, h |-> h, sites |-> sites]
    /\ strIdx = 0
    /\ strT = [k \in 1..Len(StressSiteList(strArgs.L, strArgs.sites)) |-> 0]
    /\ strPar = Unset

StrIdle ==
    /\ strPc = "idle" /\ strArgs = Unset /\ strIdx = 0 /\ strT = <<>> /\ strPar = Unset

\* lines 148-154: one iteration of the loop, for idx = strIdx (0-based)
StressLoopBody ==
    /\ strPc = "loop"
    /\ strIdx < Len(strT)
    /\ LET site == StressSiteList(strArgs.L, strArgs.sites)[strIdx + 1]
           H_local == build_local_hamiltonian_tfim_2d(strArgs.L, strArgs.J, strArgs.h, Some(site))
       IN  IF H_local.status = "raise"
           THEN /\ strPc' = "raised"
                /\ UNCHANGED <<strIdx, strT>>
           ELSE /\ strT' = [strT EXCEPT ![strIdx + 1] = Expect(H_local.terms, strArgs.psi)]
                /\ strIdx' = strIdx + 1
                /\ UNCHANGED strPc
    /\ UNCHANGED <<strArgs, strPar>>
    /\ UNCHANGED StrFrame

\* line 156: return T
StressReturn ==
    /\ strPc = "loop"
    /\ strIdx = Len(strT)
    /\ strPc' = "returned"
    /\ UNCHANGED <<strArgs, strIdx, strT, strPar>>
    /\ UNCHANGED StrFrame

\* the same state given to compute_stress_energy_parallel
StressParallel ==
    /\ strPc = "returned"
    /\ strPar' = compute_stress_energy_parallel(strArgs.psi, strArgs.L, strArgs.J, strArgs.h)
    /\ strPc' = "done"
    /\ UNCHANGED <<strArgs, strIdx, strT>>
    /\ UNCHANGED StrFrame

StrNext == StressLoopBody \/ StressReturn \/ StressParallel

-----------------------------------------------------------------------------
(* One call of find_ground_state_sparse(H) with the defaults k=1, which='SA' *)

\* what the message of an exception raised by eigsh names: ARPACK's "No
\* convergence (<n> iterations, <nconv>/<k> eigenvectors converged)" names
\* the iteration count, the converged count and k; the TypeError for k >= N
\* names no value
EigshErrorContext(e) ==
    IF e = "ArpackNoConvergence" THEN {"iterations", "converged", "k"} ELSE {}

SolveHs ==
    {build_sparse_tfim_hamiltonian(L, J, h, None) : L \in 0..2, J \in Couplings, h \in Couplings}

SolStart ==
    /\ solPc = "call"
    /\ solH \in SolveHs
    /\ solCalls = 0
    /\ solEig = Unset
    /\ solResult = Unset

SolIdle ==
    /\ solPc = "idle" /\ solH = Unset /\ solCalls = 0 /\ solEig = Unset /\ solResult = Unset

\* line 149: eigvals, eigvecs = eigsh(H, k=k, which=which); an exception of
\* eigsh leaves find_ground_state_sparse, which has no except clause
SolveEigsh ==
    /\ solPc = "call"
    /\ solCalls' = solCalls + 1
    /\ \E out \in find_ground_state_sparse(solH) :
          IF out.status = "raise"
          THEN /\ solPc' = "raised"
               /\ solResult' = [status |-> "raise", error |-> out.error,
                                context |-> EigshErrorContext(out.error)]
               /\ UNCHANGED solEig
          ELSE /\ solPc' = "eigsh"
               /\ solEig' = out
               /\ UNCHANGED solResult
    /\ UNCHANGED solH
    /\ UNCHANGED SolFrame

\* lines 154-160: E0 = eigvals[0], psi0 normalised, return E0, psi0
SolveReturn ==
    /\ solPc = "eigsh"
    /\ solResult' = [status |-> "ok", E0 |-> solEig.E0, psi0 |-> solEig.psi0]
    /\ solPc' = "done"
    /\ UNCHANGED <<solH, solCalls, solEig>>
    /\ UNCHANGED SolFrame

SolNext == SolveEigsh \/ SolveReturn

-----------------------------------------------------------------------------
(* qfi_streaming.compute_local_qfi_element and the metric, on numbers *)

\* a + b
NpAdd(a, b) == NpSub(a, NpSub(Float(0), b))

\* sum of f over the finite set S
RECURSIVE SumOver(_, _)
SumOver(S, f) ==
    IF S = {} THEN 0
    ELSE LET x == CHOOSE y \in S : TRUE IN f[x] + SumOver(S \ {x}, f)

\* gen @ v: row r of the result sums the stored entries of row r
MatApply(M, v) ==
    [r \in 1..M.rows |->
        LET row == {p \in DOMAIN M.data : p[1] = r - 1}
        IN  SumOver(row, [p \in row |-> M.data[p] * v[p[2] + 1]])]

\* np.vdot(u, v) for real vectors
vdot(u, v) == SumSeq(Times(u, v))

\* a state whose norm is taken to be one whatever its amplitudes
NormSquaredOne(v) == 1
\* the squared norm of the amplitudes v; the state is v / sqrt(v.v)
NormSquared(v) == vdot(v, v)

\* np.real(np.vdot(psi, w)) for psi = v / sqrt(s) and w = u / sqrt(s)
ExpectVec(psi, u) == Frac(vdot(psi.v, u), psi.s)

compute_local_qfi_element(psi, gen_i, gen_j) ==
    LET Gi_psi == MatApply(gen_i, psi.v)
        Gj_psi == MatApply(gen_j, psi.v)
        exp_Gi == ExpectVec(psi, Gi_psi)
        exp_Gj == ExpectVec(psi, Gj_psi)
        exp_GiGj == ExpectVec(psi, MatApply(gen_i, Gj_psi))
        exp_GjGi == ExpectVec(psi, MatApply(gen_j, Gi_psi))
        exp_anticomm == NpDiv(NpAdd(exp_GiGj, exp_GjGi), Float(2))
    IN  NpMul(Float(2), NpSub(exp_anticomm, NpMul(exp_Gi, exp_Gj)))

\* the number stored in an entry of F
QfiEntryValue(entry, psi, generators) ==
    IF entry = ZeroEntry THEN Float(0)
    ELSE compute_local_qfi_element(psi, generators[entry.gen_i + 1], generators[entry.gen_j + 1])

\* F as numbers, and g = F / 4.0 + regularization * np.eye(n_sites)
MetricF(psi, generators, sites_arg) ==
    LET F == compute_qfi_matrix_streaming("psi", Len(generators), sites_arg).F
    IN  [p \in DOMAIN F |-> QfiEntryValue(F[p], psi, generators)]
MetricG(F, regularization) ==
    [p \in DOMAIN F |->
        NpAdd(NpDiv(F[p], Float(4)),
              NpMul(regularization, Float(IF p[1] = p[2] THEN 1 ELSE 0)))]

MetLs == 1..2
\* amplitudes on dim basis states: one basis state, or two with weights
\* (1, 1), (1, -1) or (2, 1)
MetAmplitudes(dim) ==
    {[k \in 1..dim |-> IF k = a THEN 1 ELSE 0] : a \in 1..dim}
    \cup {[k \in 1..dim |-> IF k = a THEN w[1] ELSE IF k = b THEN w[2] ELSE 0] :
            a \in {1, dim}, b \in 1..dim, w \in {<<1, 1>>, <<1, -1>>, <<2, 1>>}}
MetSiteLists(n_gen) ==
    {None} \cup {Some(l) : l \in UNION {[1..len -> 0..(n_gen - 1)] : len \in 1..2}}
\* regularization: the default 1e-6, and 1/2
MetEpsilons == {Frac(1, 1000000), Frac(1, 2)}

MetStart ==
    /\ metPc = "call"
    /\ metL \in MetLs
    /\ \E v \in MetAmplitudes(Pow2(metL * metL)) : metPsi = [v |-> v, s |-> NormSquared(v)]
    /\ metSites \in MetSiteLists(metL * metL)
    /\ metEps \in MetEpsilons
    /\ metF = Unset /\ metG = Unset

MetIdle ==
    /\ metPc = "idle" /\ metL = 0 /\ metPsi = Unset /\ metSites = None
    /\ metEps = Float(0) /\ metF = Unset /\ metG = Unset

\* the whole call compute_qfi_matrix_streaming(psi, generators, sites, regularization)
MetCompute ==
    /\ metPc = "call"
    /\ LET F == MetricF(metPsi, MatLocalGenerators(metL), metSites)
       IN  /\ metF' = [status |-> "ok", F |-> F]
           /\ metG' = [status |-> "ok", g |-> MetricG(F, metEps)]
    /\ metPc' = "done"
    /\ UNCHANGED <<metL, metPsi, metSites, metEps>>
    /\ UNCHANGED MetFrame

MetNext == MetCompute

-----------------------------------------------------------------------------
(* POST /run/ingest of the ML worker: kernels/core/health.py and            *)
(* python-services/poloniex/health.py                                       *)

MAX_OUTPUT_LENGTH == 4000

\* s[-4000:] for a string of length n: the length of what is returned
Tail4000(n) == IF n > MAX_OUTPUT_LENGTH THEN MAX_OUTPUT_LENGTH ELSE n

\* the ways subprocess.run(..., timeout=600, check=True) ends: it returns, or
\* raises CalledProcessError, TimeoutExpired or OSError; out is the length of
\* the captured output
IngOutputs == {0, MAX_OUTPUT_LENGTH - 1, MAX_OUTPUT_LENGTH, MAX_OUTPUT_LENGTH + 1}
IngOutcomes ==
    {[kind |-> "returned", code |-> 0, out |-> n] : n \in IngOutputs}
    \cup {[kind |-> "CalledProcessError", code |-> c, out |-> n] :
             c \in 1..MaxReturnCode, n \in IngOutputs}
    \cup {[kind |-> "TimeoutExpired", code |-> 0, out |-> n] : n \in IngOutputs}
    \cup {[kind |-> "OSError", code |-> 0, out |-> 0]}

\* a response of the framework
Response(status, body) == [status |-> status, body |-> body]

\* kernels/core/health.py, lines 78-92: the script and the credentials
KernelsCheck(env) ==
    IF ~env.script THEN Some(Response(500, [detail |-> "ingest_markets.py not found"]))
    ELSE IF ~env.key \/ ~env.secret
    THEN Some(Response(500, [detail |-> "POLONIEX_API_KEY and POLONIEX_API_SECRET must be set"]))
    ELSE None

\* kernels/core/health.py, lines 94-147: the response for each end of the subprocess
KernelsRespond(proc) ==
    IF proc.kind = "returned"
    THEN Response(200, [ok |-> TRUE, code |-> 0, output |-> Tail4000(proc.out)])
    ELSE IF proc.kind = "TimeoutExpired"
    THEN Response(504, [ok |-> FALSE, error |-> "timeout", output |-> Tail4000(proc.out)])
    ELSE IF proc.kind = "CalledProcessError"
    THEN Response(500, [ok |-> FALSE, code |-> proc.code, error |-> "process_failed",
                        output |-> Tail4000(proc.out)])
    ELSE Response(500, [ok |-> FALSE, error |-> "unexpected_error"])

\* python-services/poloniex/health.py, lines 55-57: the script only; a dict
\* returned by the handler is sent with status 200
PoloniexCheck(env) ==
    IF ~env.script
    THEN Some(Response(200, [ok |-> FALSE, error |-> "ingest_markets.py not found"]))
    ELSE None

\* python-services/poloniex/health.py, lines 58-80: only CalledProcessError
\* is caught; any other exception leaves the handler and the framework
\* answers 500
PoloniexRespond(proc) ==
    IF proc.kind = "returned"
    THEN Response(200, [ok |-> TRUE, code |-> 0, output |-> Tail4000(proc.out)])
    ELSE IF proc.kind = "CalledProcessError"
    THEN Response(200, [ok |-> FALSE, code |-> proc.code, output |-> Tail4000(proc.out)])
    ELSE Response(500, [detail |-> "Internal Server Error"])

IngStart ==
    /\ ingPc = "request"
    /\ ingModule \in {"kernels", "poloniex"}
    /\ ingEnv \in [script : BOOLEAN, key : BOOLEAN, secret : BOOLEAN]
    /\ ingProc = Unset
    /\ ingReply = Unset

IngIdle ==
    /\ ingPc = "idle" /\ ingModule = "" /\ ingEnv = Unset /\ ingProc = Unset /\ ingReply = Unset

\* the handler up to the call of subprocess.run
IngCheck ==
    /\ ingPc = "request"
    /\ LET early == IF ingModule = "kernels" THEN KernelsCheck(ingEnv) ELSE PoloniexCheck(ingEnv)
       IN  IF IsNone(early)
           THEN ingPc' = "run" /\ UNCHANGED ingReply
           ELSE ingPc' = "replied" /\ ingReply' = Val(early)
    /\ UNCHANGED <<ingModule, ingEnv, ingProc>>
    /\ UNCHANGED IngFrame

\* subprocess.run ends and the handler answers
IngSubprocess ==
    /\ ingPc = "run"
    /\ \E proc \in IngOutcomes :
          /\ ingProc' = proc
          /\ ingReply' = IF ingModule = "kernels" THEN KernelsRespond(proc)
                         ELSE PoloniexRespond(proc)
    /\ ingPc' = "replied"
    /\ UNCHANGED <<ingModule, ingEnv>>
    /\ UNCHANGED IngFrame

IngNext == IngCheck \/ IngSubprocess

-----------------------------------------------------------------------------
(* memory/test_single_run.py: the Hamiltonian and local_energy_density      *)
(*                                                                          *)
(* J = 1.0 and h_base = 1.0 are the script's; couplings are in hundredths.  *)
(* local_energy_density(psi, site) is recorded as the observable whose      *)
(* expectation in psi it returns.                                           *)

SglJ == 100
SglHBase == 100
\* the configurations: the script's is L = 4, delta_h = 0.55
SglLs == 1..MaxSingleL
SglDeltaHs == {0, 55}

site_to_coord(i, L) == <<PyFloorDiv(i, L), PyMod(i, L)>>
coord_to_site(x, y, L) == PyMod(x, L) * L + PyMod(y, L)
get_neighbors(i, L) ==
    LET c == site_to_coord(i, L)
    IN  <<coord_to_site(c[1] + 1, c[2], L), coord_to_site(c[1], c[2] + 1, L)>>

\* ops = [id2] * N; ops[i] = a; ops[j] = b (the second assignment wins when
\* i = j); build_operator(ops, N) is the Kronecker product in list order
SglOps2(N, i, a, j, b) ==
    [k \in 1..N |-> IF k - 1 = j THEN b ELSE IF k - 1 = i THEN a ELSE "I"]
SglOps1(N, i, a) == [k \in 1..N |-> IF k - 1 = i THEN a ELSE "I"]

\* lines 74-80: the bonds added to H in iteration i of the ZZ loop
RECURSIVE SglBondsFrom(_, _, _, _)
SglBondsFrom(H, L, i, n) ==
    IF n > Len(get_neighbors(i, L)) THEN H
    ELSE LET j == get_neighbors(i, L)[n]
         IN  SglBondsFrom(IF i < j
                          THEN OpAdd(H, OpTerm(0 - SglJ, SglOps2(L * L, i, "Z", j, "Z")))
                          ELSE H, L, i, n + 1)

\* lines 206-223: the observable of local_energy_density(psi, site)
RECURSIVE SglZZFrom(_, _, _, _)
SglZZFrom(E_zz, L, site, n) ==
    IF n > Len(get_neighbors(site, L)) THEN E_zz
    ELSE SglZZFrom(OpAdd(E_zz, OpTerm(0 - (SglJ \div 2),
                                      SglOps2(L * L, site, "Z", get_neighbors(site, L)[n], "Z"))),
                   L, site, n + 1)
local_energy_density(L, h_local, site) ==
    OpAdd(OpTerm(0 - h_local, SglOps1(L * L, site, "X")), SglZZFrom(OpZero, L, site, 1))

SglStart ==
    /\ sglPc = "bonds"
    /\ sglL \in SglLs
    /\ sglDeltaH \in SglDeltaHs
    /\ sglI = 0
    /\ sglH = OpZero
    /\ sglT = <<>>

SglIdle ==
    /\ sglPc = "idle" /\ sglL = 0 /\ sglDeltaH = 0 /\ sglI = 0 /\ sglH = OpZero /\ sglT = <<>>

\* one iteration of the loop 'for i in range(N)' over the bonds
SglAddBonds ==
    /\ sglPc = "bonds"
    /\ sglH' = SglBondsFrom(sglH, sglL, sglI, 1)
    /\ IF sglI + 1 < sglL * sglL
       THEN sglI' = sglI + 1 /\ UNCHANGED sglPc
       ELSE sglI' = 0 /\ sglPc' = "fields"
    /\ UNCHANGED <<sglL, sglDeltaH, sglT>>
    /\ UNCHANGED SglFrame

\* lines 84-88: one iteration of the loop over the fields, h_local = h_base + delta_h
SglAddField ==
    /\ sglPc = "fields"
    /\ sglH' = OpAdd(sglH, OpTerm(0 - (SglHBase + sglDeltaH), SglOps1(sglL * sglL, sglI, "X")))
    /\ IF sglI + 1 < sglL * sglL
       THEN sglI' = sglI + 1 /\ UNCHANGED sglPc
       ELSE sglI' = 0 /\ sglPc' = "density"
    /\ UNCHANGED <<sglL, sglDeltaH, sglT>>
    /\ UNCHANGED SglFrame

\* line 225: T_diag, one site at a time
SglDensity ==
    /\ sglPc = "density"
    /\ sglT' = Append(sglT, local_energy_density(sglL, SglHBase + sglDeltaH, sglI))
    /\ IF sglI + 1 < sglL * sglL
       THEN sglI' = sglI + 1 /\ UNCHANGED sglPc
       ELSE sglI' = 0 /\ sglPc' = "done"
    /\ UNCHANGED <<sglL, sglDeltaH, sglH>>
    /\ UNCHANGED SglFrame

SglNext == SglAddBonds \/ SglAddField \/ SglDensity

-----------------------------------------------------------------------------
(* The backend test runners: run_test, run_all_tests, generate_report, main *)

\* the number of run_test calls in run_all_tests
BtTestCount(file) == IF file = "tests/backend_test.py" THEN 9 ELSE 7
\* what a test function does: it returns True, returns False, or raises
BtOutcomes == {"True", "False", "raise"}

\* Python's None as a returned value, and a returned bool
PyNone == [type |-> "NoneType", truthy |-> FALSE]
PyBool(b) == [type |-> "bool", truthy |-> b]

BtStart ==
    /\ btPc = "tests"
    /\ btFile \in {"tests/backend_test.py", "backend_test.py"}
    /\ btRun = 0 /\ btPassed = 0 /\ btFailed = <<>>
    /\ btReturned = Unset
    /\ btExit = -1

BtIdle ==
    /\ btPc = "idle" /\ btFile = "" /\ btRun = 0 /\ btPassed = 0 /\ btFailed = <<>>
    /\ btReturned = Unset /\ btExit = -1

\* run_test(name, test_func): the next call of run_all_tests
BtRunTest ==
    /\ btPc = "tests"
    /\ btRun < BtTestCount(btFile)
    /\ btRun' = btRun + 1
    /\ \E outcome \in BtOutcomes :
          IF outcome = "True"
          THEN btPassed' = btPassed + 1 /\ UNCHANGED btFailed
          ELSE /\ btFailed' = Append(btFailed, [test |-> btRun + 1,
                                                error |-> outcome = "raise"])
               /\ UNCHANGED btPassed
    /\ UNCHANGED <<btPc, btFile, btReturned, btExit>>
    /\ UNCHANGED BtFrame

\* generate_report(): return self.tests_passed == self.tests_run
BtGenerateReport ==
    /\ btPc = "tests"
    /\ btRun = BtTestCount(btFile)
    /\ btReturned' = [generate_report |-> PyBool(btPassed = btRun)]
    /\ btPc' = "report"
    /\ UNCHANGED <<btFile, btRun, btPassed, btFailed, btExit>>
    /\ UNCHANGED BtFrame

\* run_all_tests ends after the statement self.generate_report(): its value
\* is dropped and run_all_tests returns None
BtRunAllTestsReturns ==
    /\ btPc = "report"
    /\ btReturned' = [run_all_tests |-> PyNone] @@ btReturned
    /\ btPc' = "main"
    /\ UNCHANGED <<btFile, btRun, btPassed, btFailed, btExit>>
    /\ UNCHANGED BtFrame

\* main: success = tester.run_all_tests(); return 0 if success else 1
BtMain ==
    /\ btPc = "main"
    /\ btExit' = IF btReturned.run_all_tests.truthy THEN 0 ELSE 1
    /\ btPc' = "exited"
    /\ UNCHANGED <<btFile, btRun, btPassed, btFailed, btReturned>>
    /\ UNCHANGED BtFrame

BtNext == BtRunTest \/ BtGenerateReport \/ BtRunAllTestsReturns \/ BtMain

-----------------------------------------------------------------------------
(* python-services/poloniex/ingest_markets.py: main and the catalog file    *)
(*                                                                          *)
(* The markets list of a catalog is recorded as its length and the run that *)
(* produced it (0 for the list the file had at the start).                  *)

\* the version main writes when int(version) fails: version_num = 1
CatVersionReset(version, next_count, prev_count) ==
    1 + (IF next_count # prev_count THEN 1 ELSE 0)
\* lines 390-398: version_num + (1 if next_count != prev_count else 0)
CatNextVersion(version, next_count, prev_count) ==
    version + (IF next_count # prev_count THEN 1 ELSE 0)

\* the catalogs load_catalog reads at the start: written by an earlier run
CatCatalogs ==
    [version : 1..2, lastSynced : {0}, markets : [count : 0..MaxMarkets, run : {0}]]

CatStart ==
    /\ catPc = "ready"
    /\ catFile \in CatCatalogs
    /\ catClock = 1
    /\ catRuns = 0
    /\ catPrev = Unset
    /\ catLast = Unset

CatIdle ==
    /\ catPc = "idle" /\ catFile = Unset /\ catClock = 0 /\ catRuns = 0
    /\ catPrev = Unset /\ catLast = Unset

\* time passes between two runs
CatTick ==
    /\ catPc = "ready"
    /\ catClock <= catRuns
    /\ catClock' = catClock + 1
    /\ UNCHANGED <<catPc, catFile, catRuns, catPrev, catLast>>
    /\ UNCHANGED CatFrame

\* main, lines 373-384: no products were extracted
CatRunNoProducts ==
    /\ catPc = "ready"
    /\ catRuns < MaxCatRuns
    /\ LET catalog == catFile
           updated == [catalog EXCEPT !.lastSynced = catClock, !.markets = catalog.markets]
       IN  catFile' = updated
    /\ catPrev' = catFile
    /\ catLast' = [time |-> catClock, products |-> 0]
    /\ catRuns' = catRuns + 1
    /\ UNCHANGED <<catPc, catClock>>
    /\ UNCHANGED CatFrame

\* main, lines 386-404: n products were extracted and merged
CatRunProducts ==
    /\ catPc = "ready"
    /\ catRuns < MaxCatRuns
    /\ \E n \in 1..MaxMarkets :
          LET catalog == catFile
              prev_count == catalog.markets.count
              next_count == n
              updated == [version |-> CatNextVersion(catalog.version, next_count, prev_count),
                          lastSynced |-> catClock,
                          markets |-> [count |-> next_count, run |-> catRuns + 1]]
          IN  /\ catFile' = updated
              /\ catLast' = [time |-> catClock, products |-> n]
    /\ catPrev' = catFile
    /\ catRuns' = catRuns + 1
    /\ UNCHANGED <<catPc, catClock>>
    /\ UNCHANGED CatFrame

CatNext == CatTick \/ CatRunNoProducts \/ CatRunProducts

-----------------------------------------------------------------------------
(* Specifications: one per component, the other components idle *)

HamInit == HamStart /\ QfiIdle /\ FitIdle /\ RegIdle /\ RunIdle /\ SolIdle /\ StrIdle /\ QfoIdle /\ GeoIdle /\ KronIdle /\ MetIdle /\ IngIdle /\ SglIdle /\ BtIdle /\ CatIdle
SpecHam == HamInit /\ [][HamNext]_vars

QfiInit == QfiStart /\ HamIdle /\ FitIdle /\ RegIdle /\ RunIdle /\ SolIdle /\ StrIdle /\ QfoIdle /\ GeoIdle /\ KronIdle /\ MetIdle /\ IngIdle /\ SglIdle /\ BtIdle /\ CatIdle
SpecQfi == QfiInit /\ [][QfiNext]_vars

FitInit == FitStart /\ HamIdle /\ QfiIdle /\ RegIdle /\ RunIdle /\ SolIdle /\ StrIdle /\ QfoIdle /\ GeoIdle /\ KronIdle /\ MetIdle /\ IngIdle /\ SglIdle /\ BtIdle /\ CatIdle
SpecFit == FitInit /\ [][FitNext]_vars

RegInit == RegStart /\ HamIdle /\ QfiIdle /\ FitIdle /\ RunIdle /\ SolIdle /\ StrIdle /\ QfoIdle /\ GeoIdle /\ KronIdle /\ MetIdle /\ IngIdle /\ SglIdle /\ BtIdle /\ CatIdle
SpecRegime == RegInit /\ [][RegNext]_vars

RunInit == RunStart /\ HamIdle /\ QfiIdle /\ FitIdle /\ RegIdle /\ SolIdle /\ StrIdle /\ QfoIdle /\ GeoIdle /\ KronIdle /\ MetIdle /\ IngIdle /\ SglIdle /\ BtIdle /\ CatIdle
SpecRun == RunInit /\ [][RunNext]_vars

SolInit == SolStart /\ HamIdle /\ QfiIdle /\ FitIdle /\ RegIdle /\ RunIdle /\ StrIdle /\ QfoIdle /\ GeoIdle /\ KronIdle /\ MetIdle /\ IngIdle /\ SglIdle /\ BtIdle /\ CatIdle
SpecSolve == SolInit /\ [][SolNext]_vars

StrInit == StrStart /\ HamIdle /\ QfiIdle /\ FitIdle /\ RegIdle /\ RunIdle /\ SolIdle /\ QfoIdle /\ GeoIdle /\ KronIdle /\ MetIdle /\ IngIdle /\ SglIdle /\ BtIdle /\ CatIdle
SpecStress == StrInit /\ [][StrNext]_vars

QfoInit == QfoStart /\ HamIdle /\ QfiIdle /\ FitIdle /\ RegIdle /\ RunIdle /\ SolIdle /\ StrIdle /\ GeoIdle /\ KronIdle /\ MetIdle /\ IngIdle /\ SglIdle /\ BtIdle /\ CatIdle
SpecQfiOrder == QfoInit /\ [][QfoNext]_vars

GeoInit == GeoStart /\ HamIdle /\ QfiIdle /\ FitIdle /\ RegIdle /\ RunIdle /\ SolIdle /\ StrIdle /\ QfoIdle /\ KronIdle /\ MetIdle /\ IngIdle /\ SglIdle /\ BtIdle /\ CatIdle
SpecGeom == GeoInit /\ [][GeoNext]_vars

KronInit == KronStart /\ HamIdle /\ QfiIdle /\ FitIdle /\ RegIdle /\ RunIdle /\ SolIdle /\ StrIdle /\ QfoIdle /\ GeoIdle /\ MetIdle /\ IngIdle /\ SglIdle /\ BtIdle /\ CatIdle
SpecKron == KronInit /\ [][KronNext]_vars

MetInit == MetStart /\ HamIdle /\ QfiIdle /\ FitIdle /\ RegIdle /\ RunIdle /\ SolIdle /\ StrIdle /\ QfoIdle /\ GeoIdle /\ KronIdle /\ IngIdle /\ SglIdle /\ BtIdle /\ CatIdle
SpecMetric == MetInit /\ [][MetNext]_vars

IngInit == IngStart /\ HamIdle /\ QfiIdle /\ FitIdle /\ RegIdle /\ RunIdle /\ SolIdle /\ StrIdle /\ QfoIdle /\ GeoIdle /\ KronIdle /\ MetIdle /\ SglIdle /\ BtIdle /\ CatIdle
SpecIngest == IngInit /\ [][IngNext]_vars

SglInit == SglStart /\ HamIdle /\ QfiIdle /\ FitIdle /\ RegIdle /\ RunIdle /\ SolIdle /\ StrIdle /\ QfoIdle /\ GeoIdle /\ KronIdle /\ MetIdle /\ IngIdle /\ BtIdle /\ CatIdle
SpecSingle == SglInit /\ [][SglNext]_vars

BtInit == BtStart /\ HamIdle /\ QfiIdle /\ FitIdle /\ RegIdle /\ RunIdle /\ SolIdle /\ StrIdle /\ QfoIdle /\ GeoIdle /\ KronIdle /\ MetIdle /\ IngIdle /\ SglIdle /\ CatIdle
SpecTests == BtInit /\ [][BtNext]_vars

CatInit == CatStart /\ HamIdle /\ QfiIdle /\ FitIdle /\ RegIdle /\ RunIdle /\ SolIdle /\ StrIdle /\ QfoIdle /\ GeoIdle /\ KronIdle /\ MetIdle /\ IngIdle /\ SglIdle /\ BtIdle
SpecCatalog == CatInit /\ [][CatNext]_vars

-----------------------------------------------------------------------------
(* Claims about the Hamiltonian assembler (SpecHam) *)

\* C1: for L in {2,3} and any J, h, the sum of the local Hamiltonians of all
\* sites equals the full Hamiltonian built without delta_h: every bond with
\* total coefficient -J, every field term with coefficient -h, nothing else.
C1_LocalSumIsFull ==
    (/\ hamL \in {2, 3}
     /\ IsNone(hamDeltaH)
     /\ hamFull.status = "ok"
     /\ hamNext = hamL * hamL)
    => hamSum = hamFull.terms

\* C2: a local build for a site index outside [0, L*L) on a lattice with
\* L >= 1 is rejected with an index-range error and returns no operator.
C2_SiteOutOfRangeRejected ==
    (/\ hamL >= 1
     /\ hamLocal.status # "unset"
     /\ ~IsNone(hamSite)
     /\ (Val(hamSite) < 0 \/ Val(hamSite) >= hamL * hamL))
    => (hamLocal.status = "raise" /\ hamLocal.error = "IndexError")

\* a Kronecker product with sigma_z on exactly two sites, identity elsewhere
IsBondTerm(s) ==
    /\ \A k \in 1..Len(s) : s[k] \in {"I", "Z"}
    /\ Cardinality({k \in 1..Len(s) : s[k] = "Z"}) = 2
\* a Kronecker product with sigma_x on exactly one site, identity elsewhere
IsFieldTerm(s) ==
    /\ \A k \in 1..Len(s) : s[k] \in {"I", "X"}
    /\ Cardinality({k \in 1..Len(s) : s[k] = "X"}) = 1
\* the sites at which s has the factor op, numbered from 0
SitesOf(s, op) == {k - 1 : k \in {m \in 1..Len(s) : s[m] = op}}

\* the local build was made for a site of the lattice
HamSiteInRange ==
    /\ ~IsNone(hamSite)
    /\ Val(hamSite) >= 0 /\ Val(hamSite) < hamL * hamL

\* C11: every bond term of the local Hamiltonian of a site carries half the
\* coefficient of the same bond in the full Hamiltonian (-J/2 against -J),
\* and the site's field term carries the same coefficient in both.
C11_LocalBondsHalved ==
    (/\ hamL >= 1
     /\ IsNone(hamDeltaH)
     /\ hamFull.status = "ok"
     /\ hamLocal.status = "ok"
     /\ HamSiteInRange)
    => \A s \in DOMAIN hamLocal.terms :
          /\ s \in DOMAIN hamFull.terms
          /\ IsBondTerm(s) => 2 * hamLocal.terms[s] = hamFull.terms[s]
          /\ IsFieldTerm(s) => hamLocal.terms[s] = hamFull.terms[s]

\* sites i < j are horizontal or vertical neighbours on the open L x L grid
Adjacent(i, j, L) ==
    \/ (j = i + 1 /\ PyMod(i, L) # L - 1)
    \/ j = i + L

\* the perturbation of the field at site i (0 when delta_h is None)
HamFieldShift(i) == IF IsNone(hamDeltaH) THEN 0 ELSE Val(hamDeltaH)[i + 1]

\* C12: for L >= 1 the full Hamiltonian has exactly N = L*L field terms, one
\* per site, and exactly 2*L*(L-1) <= 2N bond terms, one with coefficient -J
\* for each unordered pair of adjacent sites of the open grid: no pair is
\* added twice, no pair wraps around an edge, and there is no other term.
C12_BondAndFieldCount ==
    (/\ hamL >= 1
     /\ hamFull.status = "ok"
     /\ hamJ # 0
     /\ (IsNone(hamDeltaH) \/ Len(Val(hamDeltaH)) = hamL * hamL)
     /\ \A i \in 0..(hamL * hamL - 1) : hamH + HamFieldShift(i) # 0)
    => LET N == hamL * hamL
           terms == hamFull.terms
           bonds == {s \in DOMAIN terms : IsBondTerm(s)}
           fields == {s \in DOMAIN terms : IsFieldTerm(s)}
       IN  /\ DOMAIN terms = bonds \cup fields
           /\ Cardinality(fields) = N
           /\ \A i \in 0..(N - 1) :
                 \E s \in fields : /\ SitesOf(s, "X") = {i}
                                   /\ terms[s] = 0 - (hamH + HamFieldShift(i))
           /\ Cardinality(bonds) = 2 * hamL * (hamL - 1)
           /\ Cardinality(bonds) <= 2 * N
           /\ \A s \in bonds :
                 /\ terms[s] = 0 - hamJ
                 /\ \E i \in 0..(N - 1), j \in 0..(N - 1) :
                       i < j /\ SitesOf(s, "Z") = {i, j} /\ Adjacent(i, j, hamL)
           /\ \A i \in 0..(N - 1), j \in 0..(N - 1) :
                 (i < j /\ Adjacent(i, j, hamL))
                 => \E s \in bonds : SitesOf(s, "Z") = {i, j}

\* the full Hamiltonian of the 3 x 3 lattice, with its 12 bonds
C12_Witness ==
    /\ hamL = 3 /\ hamJ = 1 /\ hamH = 1
    /\ hamFull.status = "ok"
    /\ Cardinality({s \in DOMAIN hamFull.terms : IsBondTerm(s)}) = 12
    /\ Cardinality({s \in DOMAIN hamFull.terms : IsFieldTerm(s)}) = 9

\* C13: a full build with a delta_h vector whose length differs from L*L,
\* shorter or longer, is rejected with an error and returns no operator.
C13_DeltaHLengthChecked ==
    (/\ hamL >= 1
     /\ ~IsNone(hamDeltaH)
     /\ Len(Val(hamDeltaH)) # hamL * hamL
     /\ hamFull.status # "unset")
    => hamFull.status = "raise"

\* C14: with L <= 0 the full build, the local build for any given site and
\* the generator build each raise an error; none returns an operator or a
\* generator list.
C14_NonPositiveLRejected ==
    hamL <= 0 =>
        /\ hamFull.status # "unset" => hamFull.status = "raise"
        /\ (hamLocal.status # "unset" /\ ~IsNone(hamSite)) => hamLocal.status = "raise"
        /\ hamGens.status # "unset" => hamGens.status = "raise"

-----------------------------------------------------------------------------
(* Claims about the streaming QFI engine (SpecQfi) *)

QfiPositions == 0..(Len(Val(qfiSites)) - 1)

\* C5: for any sites list of valid generator indices, sorted or not, with or
\* without repeats, the returned F satisfies F[a][b] = F[b][a] exactly for
\* every pair of positions and no entry is left at its initial zero.
C5_QfiSymmetricAndComplete ==
    qfiPc = "done" =>
        \A a \in QfiPositions : \A b \in QfiPositions :
            /\ qfiF[<<a, b>>] = qfiF[<<b, a>>]
            /\ qfiF[<<a, b>>] # ZeroEntry

\* a returned matrix for an unsorted sites list that repeats an index
C5_Witness ==
    /\ qfiPc = "done"
    /\ qfiSites = Some(<<1, 0, 1>>)
    /\ qfiF[<<0, 1>>] = QfiElement("psi", 0, 1)
    /\ qfiF[<<1, 0>>] = QfiElement("psi", 0, 1)
    /\ qfiF[<<0, 2>>] = QfiElement("psi", 1, 1)

-----------------------------------------------------------------------------
(* Claims about the regime classifiers (SpecRegime) *)

\* C7: every activation a gets exactly one label, "linear" if a < 0.3,
\* "geometric" if 0.3 <= a < 0.7, "breakdown" if a >= 0.7 (so 0.29, 0.30,
\* 0.69, 0.70 give linear, geometric, geometric, breakdown), and the three
\* copies of the classifier return the same label.
C7_RegimeBoundaries ==
    regPc = "done" =>
        /\ regLabels.l4 = (IF regAct <= 29 THEN "linear"
                           ELSE IF regAct <= 69 THEN "geometric" ELSE "breakdown")
        /\ regLabels.single_run = regLabels.l4
        /\ regLabels.network = regLabels.l4

\* the activation 0.30 classified, by all three copies, as geometric
C7_Witness ==
    /\ regPc = "done"
    /\ regAct = 30
    /\ regLabels.l4 = "geometric"
    /\ regLabels.network = "geometric"

-----------------------------------------------------------------------------
(* Claims about the fitter (SpecFit) *)

\* C8: the forced-origin fit of a T whose sum of squares is zero fails with
\* an error; it returns no result whose kappa or R2 is NaN or infinite.
C8_ZeroDenominatorRaises ==
    (fitPc = "done" /\ ~fitFree /\ Len(fitT) >= 1 /\ FitDenominator(fitT) = 0)
    => fitResult.status = "raise"

\* T is not all zero and G = c*T for a c # 0
FitProportional(c) ==
    /\ c # 0
    /\ SumSeq(Squares(fitT)) > 0
    /\ fitG = [k \in 1..Len(fitT) |-> c * fitT[k]]

\* C9: with free_intercept=False and sum(T*T) > 0 the fit returns
\* kappa = sum(G*T)/sum(T*T) and intercept 0, and, when sum(G*G) > 0,
\* R2 = 1 - sum((G - kappa*T)^2)/sum(G^2); for G = c*T with c # 0 it returns
\* kappa = c, intercept 0 and R2 = 1.
C9_ForcedOriginFit ==
    (fitPc = "done" /\ ~fitFree /\ SumSeq(Squares(fitT)) > 0) =>
        LET k == fitResult.kappa
            SSG == SumSeq(Squares(fitG))
            res == SumSeq(Squares([i \in 1..Len(fitG) |-> k.d * fitG[i] - k.n * fitT[i]]))
        IN  /\ fitResult.status = "ok"
            /\ IsFinite(k)
            /\ k.n * SumSeq(Squares(fitT)) = k.d * SumSeq(Times(fitG, fitT))
            /\ fitResult.b = Float(0)
            /\ SSG > 0 => FloatEq(fitResult.R2, Frac(k.d * k.d * SSG - res, k.d * k.d * SSG))
            /\ \A c \in -2..2 : FitProportional(c) =>
                  /\ FloatEq(k, Float(c))
                  /\ FloatEq(fitResult.R2, Float(1))

\* the fit of T = [1,2,3,4], G = [2,4,6,8]
C9_Witness ==
    /\ fitPc = "done" /\ ~fitFree
    /\ fitT = <<1, 2, 3, 4>> /\ fitG = <<2, 4, 6, 8>>
    /\ FloatEq(fitResult.kappa, Float(2))
    /\ FloatEq(fitResult.R2, Float(1))

-----------------------------------------------------------------------------
(* Claims about the script (SpecRun) *)

\* p is an initial segment of q
IsPrefix(p, q) == Len(p) <= Len(q) /\ p = SubSeq(q, 1, Len(p))

\* C3, as stated: the stages of a run occur in the order baseline solve,
\* perturbed solve, QFI, stress-energy, geometry, fit, report, each entered
\* once; the stress-energy vectors are computed before the Einstein tensors.
C3_StressBeforeGeometry ==
    IsPrefix(runTrace, <<"BaselineSolve", "PerturbedSolve", "QFIComputed",
                         "StressComputed", "GeometryComputed", "Fitted", "Reported">>)

\* C3, amended: the stages of a run occur in the order baseline solve,
\* perturbed solve, QFI, geometry, stress-energy, fit, report, each entered
\* once and never revisited; a run that returns has passed through all of
\* them, the Einstein tensors being computed before the stress-energy vectors.
C3_StageOrder ==
    /\ IsPrefix(runTrace, <<"BaselineSolve", "PerturbedSolve", "QFIComputed",
                            "GeometryComputed", "StressComputed", "Fitted", "Reported">>)
    /\ "regime" \in DOMAIN runResults => Len(runTrace) = 7

\* a run has returned its results after all seven stages
C3_Witness ==
    /\ runPc = "write"
    /\ Len(runTrace) = 7
    /\ runTrace[4] = "GeometryComputed" /\ runTrace[5] = "StressComputed"

\* C4: a run in which a stage failed ends Reported, its output record
\* carrying an error payload and no kappa, R2 or energies.
C4_FailureIsReported ==
    (runError # None /\ Len(runTrace) < 7) =>
        /\ runPc = "Reported"
        /\ runOutput # Unset
        /\ "error" \in DOMAIN runOutput.record
        /\ {"kappa", "R2", "E_0", "E_1"} \cap DOMAIN runOutput.record = {}

C10_SuccessOnlyInBand ==
    ("success" \in DOMAIN runResults /\ runResults.success.value) =>
        /\ runResults.R2.d > 0
        /\ 100 * runResults.R2.n > 95 * runResults.R2.d
        /\ runResults.kappa.d > 0
        /\ runResults.kappa.n > 50 * runResults.kappa.d
        /\ runResults.kappa.n < 80 * runResults.kappa.d

\* a run marked successful
C10_Witness ==
    /\ runPc = "write"
    /\ "success" \in DOMAIN runResults
    /\ runResults.success.value
    /\ runResults.kappa = Float(64)

-----------------------------------------------------------------------------
(* Claims about the ground-state solver (SpecSolve) *)

\* C15: when the eigensolver fails to converge, find_ground_state_sparse
\* has called it once only and returns no (energy, state) pair, and the error
\* that leaves it names the matrix size and the requested k.
C15_NonConvergenceFatal ==
    (solResult.status = "raise" /\ solResult.error = "ArpackNoConvergence") =>
        /\ solCalls = 1
        /\ solPc = "raised"
        /\ {"matrix size", "k"} \subseteq solResult.context

-----------------------------------------------------------------------------
(* Claims about the stress-energy routines (SpecStress) *)

\* C16: the evaluations of the sites on concurrent workers give the same
\* vector T as the sequential loop: what compute_stress_energy_parallel returns
\* for a state is the T of compute_stress_energy_streaming for all the sites,
\* slot idx holding the value of site idx.
C16_ParallelSameAsSequential ==
    (strPc = "done" /\ IsNone(strArgs.sites)) =>
        /\ strPar.status = "ok"
        /\ strPar.T = strT

-----------------------------------------------------------------------------
(* Claims about the order of the QFI element computations (SpecQfiOrder) *)

QfoSlots(p) == {p, <<p[2], p[1]>>}
QfoSequentialF == compute_qfi_matrix_streaming("psi", qfoN, None).F

\* C17: with the default site list there are exactly N(N+1)/2 element
\* computations, one per pair (i, j) with j >= i; two distinct ones write no
\* common slot of F; in whatever order and interleaving they run, a slot holds
\* its initial zero or the value the sequential loops give it, and once all have
\* run F is the matrix of the sequential loops with all N*N slots written.
C17_AnyOrderSameF ==
    qfoPc = "run" =>
        /\ 2 * Cardinality(DOMAIN qfoTasks) = qfoN * (qfoN + 1)
        /\ \A p \in DOMAIN qfoTasks : p[2] >= p[1]
        /\ \A p \in DOMAIN qfoTasks : \A q \in DOMAIN qfoTasks :
              p # q => QfoSlots(p) \cap QfoSlots(q) = {}
        /\ \A s \in DOMAIN qfoF : qfoF[s] \in {ZeroEntry, QfoSequentialF[s]}
        /\ (\A p \in DOMAIN qfoTasks : qfoTasks[p] = 2) =>
              /\ qfoF = QfoSequentialF
              /\ DOMAIN qfoF = (0..(qfoN - 1)) \X (0..(qfoN - 1))
              /\ \A s \in DOMAIN qfoF : qfoF[s] # ZeroEntry

\* three generators, all six element computations have run
C17_Witness ==
    /\ qfoPc = "run"
    /\ qfoN = 3
    /\ Cardinality(DOMAIN qfoTasks) = 6
    /\ \A p \in DOMAIN qfoTasks : qfoTasks[p] = 2
    /\ qfoF[<<2, 0>>] = QfiElement("psi", 0, 2)

-----------------------------------------------------------------------------
(* Further claims about the script (SpecRun) *)

RunSolved ==
    /\ "psi_0" \in DOMAIN runLocals /\ "psi_1" \in DOMAIN runLocals
    /\ \E a \in 1..Len(runTrace) : runTrace[a] = "BaselineSolve"
    /\ \E b \in 1..Len(runTrace) : runTrace[b] = "PerturbedSolve"

\* C18: in every run, when the QFI or the stress-energy evaluation is
\* about to start, both ground-state solves have returned their states, and
\* in the order of completion both solves come before either evaluation.
C18_SolveBeforeEvaluation ==
    /\ runPc \in {"qfi", "stress"} => RunSolved
    /\ \A k \in 1..Len(runTrace) :
          runTrace[k] \in {"QFIComputed", "StressComputed"} =>
              /\ \E a \in 1..(k - 1) : runTrace[a] = "BaselineSolve"
              /\ \E b \in 1..(k - 1) : runTrace[b] = "PerturbedSolve"

\* a run whose stress-energy evaluation is about to start, its QFI done
C18_Witness ==
    /\ runPc = "stress"
    /\ runTrace = <<"BaselineSolve", "PerturbedSolve", "QFIComputed", "GeometryComputed">>
    /\ "psi_1" \in DOMAIN runLocals

\* C19: the baseline Hamiltonian H_0 of a run is the one of the last
\* run on the same lattice, whatever the two seeds and delta_h values; with
\* the same seed and delta_h value as well, H_1 is the same too; and every
\* entry of the perturbation vector lies in [0, delta_h].
C19_SeedOnlyPerturbs ==
    /\ "delta_h" \in DOMAIN runLocals =>
          \A k \in 1..Len(runLocals.delta_h) :
              0 <= runLocals.delta_h[k] /\ runLocals.delta_h[k] <= runArgs.delta_h_value
    /\ (~IsNone(runPrev) /\ "H_0" \in DOMAIN runLocals /\ Val(runPrev).L = runArgs.L) =>
          /\ runLocals.H_0 = Val(runPrev).H_0
          /\ ("H_1" \in DOMAIN runLocals /\ Val(runPrev).seed = runArgs.seed
                /\ Val(runPrev).delta_h = runArgs.delta_h_value) =>
                 runLocals.H_1 = Val(runPrev).H_1

\* a run after one with another seed and another delta_h value: same H_0,
\* another H_1
C19_Witness ==
    /\ ~IsNone(runPrev)
    /\ "H_1" \in DOMAIN runLocals
    /\ Val(runPrev).L = runArgs.L
    /\ Val(runPrev).seed # runArgs.seed
    /\ Val(runPrev).delta_h # runArgs.delta_h_value
    /\ runLocals.H_0 = Val(runPrev).H_0
    /\ runLocals.H_1 # Val(runPrev).H_1

-----------------------------------------------------------------------------
(* Claims about the curvature proxies (SpecGeom) *)

GeoN == Len(geoG)
GeoTrace == SumSeq([i \in 1..GeoN |-> geoG[i][i]])
\* the exact sum of an array of fractions
RECURSIVE FracSum(_)
FracSum(v) ==
    IF Len(v) = 0 THEN Float(0)
    ELSE LET rest == FracSum(Tail(v))
         IN  Frac(Head(v).n * rest.d + rest.n * Head(v).d, Head(v).d * rest.d)

\* C20: for every i the returned Ricci diagonal is R_i = g_ii - mean_j(g_jj)
\* and the Einstein diagonal is G_i = R_i - (1/2) trace(g) g_ii, that is
\* N R_i = N g_ii - trace(g) and 2 N G_i = 2 (N g_ii - trace(g)) - N trace(g) g_ii;
\* the Ricci diagonal sums to zero.
C20_RicciEinsteinDiagonals ==
    geoPc = "done" =>
        /\ Len(geoOut.R_diag) = GeoN /\ Len(geoOut.G_diag) = GeoN
        /\ \A i \in 1..GeoN :
              LET R_i == geoOut.R_diag[i]
                  G_i == geoOut.G_diag[i]
              IN  /\ R_i.d > 0 /\ G_i.d > 0
                  /\ GeoN * R_i.n = (GeoN * geoG[i][i] - GeoTrace) * R_i.d
                  /\ 2 * GeoN * G_i.n =
                        (2 * (GeoN * geoG[i][i] - GeoTrace) - GeoN * GeoTrace * geoG[i][i]) * G_i.d
        /\ FracSum(geoOut.R_diag) = Float(0)

\* the metric with diagonal (2, -1, 1) and 1 elsewhere: mean 2/3, trace 2,
\* R = (4/3, -5/3, 1/3), G = (-2/3, -2/3, -2/3)
C20_Witness ==
    /\ geoPc = "done"
    /\ geoG = <<(<<2, 1, 1>>), (<<1, -1, 1>>), (<<1, 1, 1>>)>>
    /\ geoOut.R_diag = <<Frac(4, 3), Frac(-5, 3), Frac(1, 3)>>
    /\ geoOut.G_diag = <<Frac(-2, 3), Frac(-2, 3), Frac(-2, 3)>>

\* C30: the call reads only the diagonal of g: the metric after the call is
\* the metric given to it, and the two returned vectors are the ones returned
\* for every regularization argument and for the same metric with any one
\* off-diagonal entry changed to any value.
C30_OnlyDiagonalRead ==
    geoPc = "done" =>
        /\ geoG = geoG0
        /\ \A r \in GeoRegularizations : compute_geometry_from_qfi(geoG0, r) = geoOut
        /\ \A i, j \in 1..GeoN : \A v \in -2..(MaxGeoVal + 1) :
              i # j => compute_geometry_from_qfi([geoG0 EXCEPT ![i][j] = v], geoReg) = geoOut

\* a call with regularization 1 on a metric whose off-diagonal entries are
\* all 1: changing the entry (1, 3) to -2 changes the sum of the entries
\* and not the trace
C30_Witness ==
    /\ geoPc = "done"
    /\ geoReg = Float(1)
    /\ geoG0 = <<(<<2, 1, 1>>), (<<1, -1, 1>>), (<<1, 1, 2>>)>>
    /\ geoG = geoG0
    /\ geoOut.R_diag = <<Float(1), Float(-2), Float(1)>>
    /\ np_sum_all([geoG0 EXCEPT ![1][3] = -2]) # np_sum_all(geoG0)
    /\ np_trace([geoG0 EXCEPT ![1][3] = -2]) = np_trace(geoG0)

\* C21: the cross-check passes for every input, so no run returns the
\* 'Cross-validation failed' record: a run that has started and completed no
\* stage yet is at its baseline solve (or was ended by that solve's exception).
C21_CrossCheckNeverFails ==
    /\ "error" \notin DOMAIN runResults
    /\ \A L_small \in 0..3 : \A L_large \in RunLs :
          validate_against_smaller_system(L_small, L_large)
    /\ (runCount >= 1 /\ runTrace = <<>> /\ IsNone(runError)) => runPc = "baseline"

\* a second run, on the empty lattice, at its baseline solve
C21_Witness ==
    /\ runCount = 2
    /\ runPc = "baseline"
    /\ runArgs.L = 0
    /\ runTrace = <<>>

\* C22: every output record written for a run contains all of the fields
\* seed, delta_h, L, kappa, R2, intercept, regime, E_0, E_1, delta_E,
\* norm_delta_G, norm_delta_T, success, timestamp and runtime_seconds, and
\* its delta_E is E_1 - E_0.
C22_RecordHasAllFields ==
    runOutput # Unset =>
        /\ {"seed", "delta_h", "L", "kappa", "R2", "intercept", "regime", "E_0", "E_1",
            "delta_E", "norm_delta_G", "norm_delta_T", "success", "timestamp",
            "runtime_seconds"} \subseteq DOMAIN runOutput.record
        /\ runOutput.record.delta_E = runOutput.record.E_1 - runOutput.record.E_0

-----------------------------------------------------------------------------
(* Claims about the operators as matrices (SpecKron) *)

KronN == kronL * kronL
\* M has 2^N rows, one stored entry in each row and in each column, none zero
IsMonomial(M, N) ==
    /\ M.rows = Pow2(N)
    /\ DOMAIN M.data \subseteq (0..(M.rows - 1)) \X (0..(M.rows - 1))
    /\ Cardinality(DOMAIN M.data) = Pow2(N)
    /\ \A r \in 0..(M.rows - 1) :
          /\ Cardinality({p \in DOMAIN M.data : p[1] = r}) = 1
          /\ Cardinality({p \in DOMAIN M.data : p[2] = r}) = 1
    /\ \A p \in DOMAIN M.data : M.data[p] # 0

\* C23: every operator built from X, Z and identity factors on N >= 1
\* sites, by either build_operator or as a generator, has exactly one nonzero
\* entry in each row and in each column, 2^N stored entries in all.
C23_OneEntryPerRowAndColumn ==
    (kronPc = "done" /\ kronL >= 1) =>
        /\ kronBase.status = "ok" /\ IsMonomial(Val(kronBase.result), KronN)
        /\ kronStress.status = "ok" /\ IsMonomial(Val(kronStress.result), KronN)
        /\ Len(kronGens.generators) = KronN
        /\ \A s \in 1..KronN : IsMonomial(kronGens.generators[s], KronN)

\* the two-site operator Z_1 Z_2 on the 2 x 2 lattice: 16 stored entries
C23_Witness ==
    /\ kronPc = "done"
    /\ kronL = 2
    /\ kronOps = (1 :> "Z") @@ (2 :> "Z")
    /\ Cardinality(DOMAIN Val(kronBase.result).data) = 16
    /\ Val(kronBase.result).data[<<2, 2>>] = -1

-----------------------------------------------------------------------------
(* Claims about the metric as numbers (SpecMetric) *)

MetPositions == {p[1] : p \in DOMAIN metF.F}
\* F scaled to integers by s * s
MetScaled(p) == (metF.F[p].n * metPsi.s * metPsi.s) \div metF.F[p].d
\* the determinant of the rows and columns idx (a list of positions) of MetScaled
RECURSIVE MetDet(_, _)
MetDet(rows, cols) ==
    IF Len(rows) = 0 THEN 1
    ELSE LET rest == Tail(rows)
             without(k) == [m \in 1..(Len(cols) - 1) |-> IF m < k THEN cols[m] ELSE cols[m + 1]]
             term(k) == (IF k % 2 = 1 THEN 1 ELSE -1) * MetScaled(<<rows[1], cols[k]>>)
                        * MetDet(rest, without(k))
         IN  SumSeq([k \in 1..Len(cols) |-> term(k)])
\* the positions of S in increasing order
RECURSIVE SortedList(_)
SortedList(S) ==
    IF S = {} THEN <<>>
    ELSE LET m == CHOOSE x \in S : \A y \in S : x <= y IN <<m>> \o SortedList(S \ {m})

\* C24: for a unit-norm state and a regularization epsilon > 0, the
\* returned g is F/4 + epsilon on the diagonal and F/4 off it, with F
\* symmetric and positive semi-definite (every principal minor of F is
\* non-negative), so that g - epsilon I is positive semi-definite and every
\* eigenvalue of g is at least epsilon.
C24_MetricPositive ==
    metPc = "done" =>
        /\ \A p \in DOMAIN metF.F :
              /\ metF.F[p].d > 0
              /\ (metPsi.s * metPsi.s) % metF.F[p].d = 0
              /\ metF.F[p] = metF.F[<<p[2], p[1]>>]
              /\ metG.g[p] = NpAdd(NpDiv(metF.F[p], Float(4)),
                                   IF p[1] = p[2] THEN metEps ELSE Float(0))
        /\ \A S \in SUBSET MetPositions : MetDet(SortedList(S), SortedList(S)) >= 0

\* the state (|0000> - |1111>)/sqrt(2) on the 2 x 2 lattice, all four sites:
\* F = 2 I and g = (1/2 + 1e-6) I
C24_Witness ==
    /\ metPc = "done"
    /\ metL = 2
    /\ metPsi.s = 2 /\ metPsi.v[1] = 1 /\ metPsi.v[16] = -1
    /\ IsNone(metSites)
    /\ metF.F[<<0, 0>>] = Float(2)
    /\ metF.F[<<0, 3>>] = Float(0)
    /\ metG.g[<<1, 1>>] = Frac(500001, 1000000)

-----------------------------------------------------------------------------
(* Claims about the ML worker's ingestion endpoint (SpecIngest) *)

\* C25: every answer of POST /run/ingest has status 200, 422 or 500, and a
\* successful ingestion is answered 200.
C25_IngestStatusCodes ==
    ingPc = "replied" =>
        /\ ingReply.status \in {200, 422, 500}
        /\ (ingProc # Unset /\ ingProc.kind = "returned") => ingReply.status = 200

-----------------------------------------------------------------------------
(* Claims about the single-run script (SpecSingle) *)

RECURSIVE SglSum(_)
SglSum(T) == IF Len(T) = 0 THEN OpZero ELSE OpAdd(Head(T), SglSum(Tail(T)))

\* C26: every ZZ term of a local energy density is a bond of the H the
\* script built, and the local densities of all the sites add up to H: every
\* bond with weight J and every field with weight h_local.
C26_LocalDensitiesSumToH ==
    sglPc = "done" =>
        /\ \A i \in 1..Len(sglT) : \A s \in DOMAIN sglT[i] :
              (\E k \in 1..Len(s) : s[k] = "Z") => s \in DOMAIN sglH
        /\ SglSum(sglT) = sglH

-----------------------------------------------------------------------------
(* Further claims about the operators as matrices (SpecKron) *)

\* r with the bit of weight 2^b flipped
FlipBit(r, b) == IF (r \div Pow2(b)) % 2 = 1 THEN r - Pow2(b) ELSE r + Pow2(b)
\* X on site i of N with site 0 the most significant factor and identity on
\* the other sites: the entry 1 at (r, r with bit N - 1 - i flipped) for every row r
XOnSite(i, N) ==
    [rows |-> Pow2(N),
     data |-> [p \in {<<r, FlipBit(r, N - 1 - i)>> : r \in 0..(Pow2(N) - 1)} |-> 1]]

\* C27: for L >= 1 and a site i < L*L, build_operator({i: X}) of the
\* Hamiltonian assembler, build_operator({i: X}) of the stress-energy module
\* and build_local_generators_tfim(L)[i] are the same operator: X on site i,
\* site 0 being the leftmost (most significant) Kronecker factor, identity on
\* every other site.
C27_BuildersAgree ==
    (kronPc = "done" /\ kronL >= 1) =>
        /\ \A i \in 0..(KronN - 1) : kronGens.generators[i + 1] = XOnSite(i, KronN)
        /\ \A i \in 0..(KronN - 1) :
              kronOps = Xops(i) =>
                  /\ kronBase.status = "ok" /\ kronStress.status = "ok"
                  /\ Val(kronBase.result) = Val(kronStress.result)
                  /\ Val(kronBase.result) = kronGens.generators[i + 1]
                  /\ Val(kronBase.result) = XOnSite(i, KronN)

\* X on site 1 of the 2 x 2 lattice: the three builders return the operator
\* that flips the bit of weight 4
C27_Witness ==
    /\ kronPc = "done"
    /\ kronL = 2
    /\ kronOps = Xops(1)
    /\ Val(kronBase.result) = kronGens.generators[2]
    /\ Val(kronStress.result).data[<<0, 4>>] = 1

-----------------------------------------------------------------------------
(* Claims about the backend test runners (SpecTests) *)

\* C28: main's exit code is 0 exactly when every executed test passed and
\* 1 otherwise; after any sequence of run_test calls tests_run is tests_passed
\* plus the number of entries of failed_tests.
C28_ExitCodeReflectsTests ==
    /\ btRun = btPassed + Len(btFailed)
    /\ btPc = "exited" => (btExit = 0 <=> btPassed = btRun)
    /\ btPc = "exited" => btExit \in {0, 1}

-----------------------------------------------------------------------------
(* Claims about the markets catalog (SpecCatalog) *)

====
